---- MODULE Spec2Model ----
(***************************************************************************)
(* State-machine model of the buybot bundle engine family:                 *)
(*   - ReentrancyGuard          (src/programs/reentrancy_guard.js)         *)
(*   - ScalableBundleEngine and its managers                               *)
(*                              (src/programs/scalable_bundle_engine.js)   *)
(*   - ThrottlingManager and CacheManager on their own, as the tests       *)
(*     construct them          (src/tests/security_scalability_tests.js)   *)
(*                                                                         *)
(* JavaScript runs every handler to completion up to its next `await`.     *)
(* One action of the model is one such run-to-completion segment; the      *)
(* segments of different calls interleave freely.                          *)
(***************************************************************************)
EXTENDS Integers, Sequences, FiniteSets, Bags, TLC

\* ------------------------------------------------------------------------
\* Bounds of the model
\* ------------------------------------------------------------------------
\* number of executeWithGuard calls issued by the callers of GuardSpec
MaxCalls == 4
\* the same number for the callers of GuardLiveSpec
MaxLiveCalls == 3
\* the environment of EngineSpec is one of two:
\*   - up to MaxAddCalls addTransaction calls with any input, failing
\*     submissions, rebalance runs and explicit executeBundleTransactions calls
\*   - up to MaxDeepCalls addTransaction calls with the default input and
\*     nothing else but timers, on an engine without worker threads (enough
\*     to have more than BUNDLE_SIZE transfers pending)
MaxAddCalls == 2
MaxDeepCalls == 12
\* number of times the bundle timer fires
MaxTimerFires == 2
\* number of members whose submission fails
MaxFailures == 1
\* number of rebalance() runs that pass the REBALANCE_INTERVAL check
MaxRebalances == 1
\* number of explicit executeBundleTransactions calls
MaxExecCalls == 1
\* the engine is constructed with 0..MaxWorkers worker threads
MaxWorkers == 2
\* number of calls made to the throttling manager
MaxThrottleCalls == 5
\* the managers are observed from time 0 to time MaxClock
MaxClock == 3
\* number of set, get and delete calls made to the cache manager
MaxCacheCalls == 4
\* number of checkScaling calls
MaxScaleChecks == 5

\* ------------------------------------------------------------------------
\* Program constants
\* ------------------------------------------------------------------------
BUNDLE_SIZE == 10
BUNDLE_MIN_SIZE == 3
\* in the second environment, the first calls, up to MaxHighCalls of them, may
\* carry an amount whose priority is above the high-priority threshold
MaxHighCalls == BUNDLE_MIN_SIZE
BUNDLE_TIMEOUT == 30000
\* amounts are counted in units of 1000 (MAX_AMOUNT = 10^12 in the source)
MAX_AMOUNT == 1000000000
\* SCALING_CONFIG.SHARDING.SHARD_COUNT on a machine with four or five cores
SHARD_COUNT == 2

\* the managers read the clock in ticks; for the throttling manager a tick is
\* 500 ms
\* the global window of ThrottlingManager.isAllowed is 1000 ms
GlobalWindow == 2
\* limits of the throttling manager, as the tests configure it
MAX_REQUESTS_PER_SECOND == 5
MAX_REQUESTS_PER_IP == 3
\* WINDOW_MS and BLOCK_DURATION of the configurations studied, in ticks: the
\* block outlasts the window (as in SCALING_CONFIG and in the tests), equals
\* it, or is shorter
ThrottleConfigs ==
  {[window |-> 2, block |-> 3], [window |-> 2, block |-> 2],
   [window |-> 3, block |-> 2]}
\* the configuration of a manager that is not under study
DefaultWindow == 2
DefaultBlock == 3
\* the sources of requests
Sources == {"ip1", "ip2"}
\* configuration of the cache manager, as the tests configure it; for the
\* cache a tick of the clock is 50 ms
TTL == 2
MAX_SIZE == 3
PRUNE_INTERVAL == 1
\* configuration of the auto-scaling manager; thresholds and CPU usage are in
\* percent, COOLDOWN_PERIOD in ticks of 30 s, MAX_WORKERS is os.cpus().length
MIN_WORKERS == 1
MAX_WORKERS == 3
SCALE_UP_THRESHOLD == 70
SCALE_DOWN_THRESHOLD == 30
COOLDOWN_PERIOD == 2
historyMaxLength == 10
\* the CPU usage a sample can measure: low, middling, high
CpuSamples == {10, 50, 90}
\* lastAction when the worker count has never changed
NoAction == 0 - COOLDOWN_PERIOD
\* the keys given to the cache, and the ttl arguments of set (0: none given)
CacheKeys == 1..(MAX_SIZE + 1)
Ttls == {0, 1}

\* ------------------------------------------------------------------------
\* Keys and function kinds
\* ------------------------------------------------------------------------
\* operation ids used by the direct callers of the guard
GuardKeys == {"k1", "k2"}
\* every operation id the guard is asked about
Senders == {1, 2}
AddKey(from) == IF from = 1 THEN "add_transaction_1" ELSE "add_transaction_2"
Keys == GuardKeys \cup {"execute_bundle"} \cup {AddKey(f) : f \in Senders}

\* the sender of a call whose fromKeypair or toWallet is not a public key
Malformed == 0

\* amounts offered to addTransaction, in units of 1000
Amounts == {0, 1, 1000}

\* guarded functions of GuardSpec:
\*   "incr"    reads a shared counter, awaits, writes counter + 1 (or fails)
\*   "reenter" calls executeWithGuard with its own key and awaits the result
GuardFns == {"incr", "reenter"}

VARIABLES
  locks,              \* ReentrancyGuard.locks: key -> BOOLEAN (absent = FALSE)
  pendingOperations,  \* ReentrancyGuard.pendingOperations: key -> queue of calls
  ops,                \* the executeWithGuard calls: call id -> record
  counter,            \* the shared counter the "incr" functions read and write
  startLog,           \* per key, the calls logged with status 'start', in log order
  microtasks,         \* the calls whose `await fn.apply` continuation is queued,
                      \* in the order the event loop will run them
  pendingTransactions,\* ScalableBundleEngine.pendingTransactions
  priorityQueue,      \* TransactionOptimizer.priorityQueue
  transactionGroups,  \* TransactionOptimizer.transactionGroups: sender -> transfers
  shards,             \* ShardManager.shards: index -> [transactions, load]
  bundleTimer,        \* 0 when null, else the timeout the timer was armed with
  bundleInProgress,   \* ScalableBundleEngine.bundleInProgress
  executedBundles,    \* ScalableBundleEngine.executedBundles, as a bag of records
  workers,            \* ScalableBundleEngine.workers.length
  workerJobs,         \* execute_transactions messages being processed by workers
  nextId,             \* number of transfer ids minted so far
  bundleCount,        \* number of bundles selected so far
  lastBundle,         \* the bundle selected last: [id, members]
  selected,           \* per transfer id, in how many bundles it was selected
  dispatched,         \* per transfer id, how often it was handed to submission
  rebalances,         \* number of rebalance() runs
  timerFires,         \* number of times the bundle timer fired
  addCalls,           \* number of addTransaction calls made
  execCalls,          \* number of explicit executeBundleTransactions calls made
  failures,           \* number of submissions that failed
  callLimit,          \* the callers' budget of calls (addTransaction calls for
                      \* the engine, executeWithGuard calls for the guard alone)
  clock,              \* Date.now() as the managers read it, in ticks
  calls,              \* number of calls made to the manager under study
  lastCall,           \* the last such call: [op, ip, ret]
  requests,           \* ThrottlingManager.requests: source -> timestamps
  blockedIPs,         \* ThrottlingManager.blockedIPs: source -> expiry (0 = absent)
  globalRequests,     \* ThrottlingManager.globalRequests
  windowMs,           \* ThrottlingManager.windowMs, in ticks
  blockDuration,      \* ThrottlingManager.blockDuration, in ticks
  lastBlock,          \* per source, the expiry of its latest block until the
                      \* first isAllowed call made at or after that expiry
  streak,             \* per source, the run of calls it has made since its
                      \* window was empty: [kind, n, start]
  cache,              \* CacheManager.cache: entries [key, value, expiresAt,
                      \* lastAccessed] in the Map's insertion order
  lastPruneTime,      \* CacheManager.lastPruneTime
  written,            \* per key, what its last set wrote: [value, expiresAt,
                      \* live]
  currentWorkers,     \* AutoScalingManager.currentWorkers
  lastScaleTime,      \* AutoScalingManager.lastScaleTime
  cpuHistory,         \* AutoScalingManager.cpuHistory, in percent
  scaleChecks,        \* the checkScaling calls awaiting their CPU sample, each
                      \* with the time it read before the await
  lastAction          \* the time of the last change of currentWorkers

engineVars == <<locks, pendingOperations, ops, counter, startLog, microtasks,
          pendingTransactions,
          priorityQueue, transactionGroups, shards, bundleTimer,
          bundleInProgress, executedBundles, workers, workerJobs, nextId,
          bundleCount, lastBundle, selected, dispatched, rebalances, timerFires,
          addCalls, execCalls, failures, callLimit>>

throttleVars == <<requests, blockedIPs, globalRequests, windowMs,
                  blockDuration, lastBlock, streak>>

cacheVars == <<cache, lastPruneTime, written>>

scalingVars == <<currentWorkers, lastScaleTime, cpuHistory, scaleChecks,
                 lastAction>>

managerVars == <<clock, calls, lastCall, throttleVars, cacheVars, scalingVars>>

vars == <<engineVars, managerVars>>

\* the program state as one value, so that nested calls compose
Cur ==
  [locks |-> locks, pendingOperations |-> pendingOperations, ops |-> ops,
   counter |-> counter, startLog |-> startLog, microtasks |-> microtasks,
   pendingTransactions |-> pendingTransactions, priorityQueue |-> priorityQueue,
   transactionGroups |-> transactionGroups, shards |-> shards,
   bundleTimer |-> bundleTimer, bundleInProgress |-> bundleInProgress,
   executedBundles |-> executedBundles, workers |-> workers,
   workerJobs |-> workerJobs, nextId |-> nextId, bundleCount |-> bundleCount,
   lastBundle |-> lastBundle, selected |-> selected,
   dispatched |-> dispatched, rebalances |-> rebalances,
   timerFires |-> timerFires, addCalls |-> addCalls, execCalls |-> execCalls,
   failures |-> failures, now |-> clock]

\* the state a handler leaves behind becomes the next state; it is computed once
Commit(s) ==
  \E v \in {s} :
    /\ locks' = v.locks
    /\ pendingOperations' = v.pendingOperations
    /\ ops' = v.ops
    /\ counter' = v.counter
    /\ startLog' = v.startLog
    /\ microtasks' = v.microtasks
    /\ pendingTransactions' = v.pendingTransactions
    /\ priorityQueue' = v.priorityQueue
    /\ transactionGroups' = v.transactionGroups
    /\ shards' = v.shards
    /\ bundleTimer' = v.bundleTimer
    /\ bundleInProgress' = v.bundleInProgress
    /\ executedBundles' = v.executedBundles
    /\ workers' = v.workers
    /\ workerJobs' = v.workerJobs
    /\ nextId' = v.nextId
    /\ bundleCount' = v.bundleCount
    /\ lastBundle' = v.lastBundle
    /\ selected' = v.selected
    /\ rebalances' = v.rebalances
    /\ timerFires' = v.timerFires
    /\ dispatched' = v.dispatched
    /\ addCalls' = v.addCalls
    /\ execCalls' = v.execCalls
    /\ failures' = v.failures
    /\ callLimit' = callLimit
    /\ UNCHANGED managerVars

\* one executeWithGuard call: its key, its function, where it stands
\*   st: "queued"  waiting in pendingOperations
\*       "running" lock held, fn started and not yet settled
\*       "settled" fn's promise settled, the guard's continuation not yet run
\*       "done"    lock released, result delivered to the caller
\* wasQueued records that the call went through _addToPendingQueue
\* from, amount: the arguments of an addTransaction call
\* bundleId, todo: the bundle an executeBundleTransactions call executes
\*                 synchronously and its members not yet submitted
\* early: for an addTransaction call that called executeBundleTransactions,
\*        the number of bundles selected before that call, plus one
\* count: the transactionCount an executeBundleTransactions call returns with
\*        its bundleId (bundleId 0: it returns undefined)
NewOp(key, fn, parent) ==
  [key |-> key, fn |-> fn, st |-> "new", outcome |-> "none",
   result |-> "pending", local |-> 0, parent |-> parent, wait |-> 0,
   wasQueued |-> FALSE, from |-> 0, amount |-> 0, bundleId |-> 0, todo |-> <<>>,
   early |-> 0, count |-> 0]

\* the id of the next call: the smallest id not in use
NewId(s) ==
  CHOOSE n \in 1..(Cardinality(DOMAIN s.ops) + 1) :
    /\ n \notin DOMAIN s.ops
    /\ \A m \in 1..(n - 1) : m \in DOMAIN s.ops

Min(a, b) == IF a < b THEN a ELSE b
Max(a, b) == IF a > b THEN a ELSE b

\* ------------------------------------------------------------------------
\* ReentrancyGuard
\* ------------------------------------------------------------------------
isLocked_open(s, operationId) == FALSE

isLocked_global(s, operationId) == \E k \in Keys : s.locks[k]

isLocked(s, operationId) == s.locks[operationId]

_lock(s, operationId) == [s EXCEPT !.locks[operationId] = TRUE]

_unlock(s, operationId) == [s EXCEPT !.locks[operationId] = FALSE]

_addToPendingQueue_front(s, operationId, c) ==
  [s EXCEPT !.pendingOperations[operationId] = <<c>> \o @,
            !.ops[c].st = "queued", !.ops[c].wasQueued = TRUE]

_addToPendingQueue(s, operationId, c) ==
  [s EXCEPT !.pendingOperations[operationId] = Append(@, c),
            !.ops[c].st = "queued", !.ops[c].wasQueued = TRUE]

\* the promise of the guarded function of call c settles: the continuation of
\* `await fn.apply(...)` is queued behind the continuations queued before it
settle(s, c, outcome) ==
  [s EXCEPT !.ops[c].st = "settled", !.ops[c].outcome = outcome,
            !.microtasks = Append(@, c)]

RECURSIVE executeWithGuard(_, _)

\* ------------------------------------------------------------------------
\* TransactionOptimizer
\* ------------------------------------------------------------------------
\* priority in units of 1/10000; amount in units of 1000, age in ms
calculatePriority(amount, age) ==
  LET amountFactor == 7 * Min(1000, amount)
      ageFactor == IF age + 1 <= 10000 THEN 3000 ELSE 30000000 \div (age + 1)
  IN amountFactor + ageFactor

\* (a queue that is only pushed to)
insertByPriority_append(sorted, tx) == Append(sorted, tx)

\* Array.prototype.sort((a, b) => b.priority - a.priority): stable, descending
insertByPriority(sorted, tx) ==
  LET k == Cardinality({i \in 1..Len(sorted) : sorted[i].priority >= tx.priority})
  IN SubSeq(sorted, 1, k) \o <<tx>> \o SubSeq(sorted, k + 1, Len(sorted))

RECURSIVE sortByPriority(_)
sortByPriority(q) ==
  IF q = <<>> THEN <<>>
  ELSE insertByPriority(sortByPriority(SubSeq(q, 1, Len(q) - 1)), q[Len(q)])

\* transactionGroups is a Map: its domain is the set of senders that have a group
Optimizer_addTransaction(s, tx) ==
  LET senderKey == tx.fromWallet
      groups == IF senderKey \in DOMAIN s.transactionGroups
                  THEN s.transactionGroups
                  ELSE s.transactionGroups @@ (senderKey :> <<>>)
  IN [s EXCEPT !.priorityQueue = sortByPriority(Append(@, tx)),
               !.transactionGroups =
                   [groups EXCEPT ![senderKey] = Append(@, tx)]]

getOptimizedTransactions_all(s, maxCount) == s.priorityQueue

getOptimizedTransactions(s, maxCount) ==
  SubSeq(s.priorityQueue, 1, Min(maxCount, Len(s.priorityQueue)))

withoutIds(seq, transactionIds) ==
  LET keep(tx) == tx.id \notin transactionIds IN SelectSeq(seq, keep)

removeTransactions_none(s, transactionIds) == s

\* (the groups are filtered but an emptied group stays in the Map)
removeTransactions_keepEmpty(s, transactionIds) ==
  [s EXCEPT !.priorityQueue = withoutIds(@, transactionIds),
            !.transactionGroups =
                [f \in DOMAIN @ |-> withoutIds(@[f], transactionIds)]]

removeTransactions(s, transactionIds) ==
  LET filtered == [f \in DOMAIN s.transactionGroups |->
                     withoutIds(s.transactionGroups[f], transactionIds)]
      nonEmpty == {f \in DOMAIN filtered : Len(filtered[f]) # 0}
  IN [s EXCEPT !.priorityQueue = withoutIds(@, transactionIds),
               !.transactionGroups = [f \in nonEmpty |-> filtered[f]]]

\* ------------------------------------------------------------------------
\* ShardManager
\* ------------------------------------------------------------------------
\* parseInt(sha256(key).substring(0, 8), 16): a fixed number per key
HashNum(key) == IF key = 1 THEN 7 ELSE IF key = 2 THEN 12 ELSE 5

getShardIndex(tx) == HashNum(tx.fromWallet) % SHARD_COUNT

\* the manager's table on its own: shardCount is the size of the table
shardCountOf(sh) == Cardinality(DOMAIN sh)

\* ShardManager.assignToShard on a table of any size
assignToTable(sh, tx) ==
  LET shardIndex == HashNum(tx.fromWallet) % shardCountOf(sh) IN
  [sh EXCEPT ![shardIndex].transactions = Append(@, tx),
             ![shardIndex].load = @ + 1]

\* what a call that throws `Indice shard non valido` returns in the model
InvalidShardIndex == 0 - 1

\* (a removal that leaves the load counter alone)
removeTransactionsFromShard_keepLoad(sh, shardIndex, transactionIds) ==
  IF shardIndex < 0 \/ shardIndex >= shardCountOf(sh)
    THEN [shards |-> sh, ret |-> InvalidShardIndex]
    ELSE LET kept == LET keep(tx) == tx.id \notin transactionIds
                     IN SelectSeq(sh[shardIndex].transactions, keep)
         IN [shards |-> [sh EXCEPT ![shardIndex].transactions = kept],
             ret |-> Len(sh[shardIndex].transactions) - Len(kept)]

\* ShardManager.removeTransactionsFromShard: the table it leaves and what it
\* returns (InvalidShardIndex: it throws)
removeTransactionsFromShard(sh, shardIndex, transactionIds) ==
  IF shardIndex < 0 \/ shardIndex >= shardCountOf(sh)
    THEN [shards |-> sh, ret |-> InvalidShardIndex]
    ELSE LET kept == LET keep(tx) == tx.id \notin transactionIds
                     IN SelectSeq(sh[shardIndex].transactions, keep)
             removedCount == Len(sh[shardIndex].transactions) - Len(kept)
         IN [shards |-> [sh EXCEPT ![shardIndex].transactions = kept,
                                   ![shardIndex].load = @ - removedCount],
             ret |-> removedCount]

assignToShard_twice(s, tx) ==
  [s EXCEPT !.shards =
     [i \in DOMAIN @ |-> [transactions |-> Append(@[i].transactions, tx),
                          load |-> @[i].load + 1]]]

assignToShard(s, tx) ==
  LET shardIndex == getShardIndex(tx) IN
  [s EXCEPT !.shards[shardIndex].transactions = Append(@, tx),
            !.shards[shardIndex].load = @ + 1]

\* (a loop that copies the transactions to move and leaves the overloaded
\* shard as it was)
rebalanceLoop_copy(sh, overloadedShards, underloadedShards) ==
  IF overloadedShards = <<>> \/ underloadedShards = <<>> THEN sh
  ELSE LET overIndex == Head(overloadedShards)
           underIndex == Head(underloadedShards)
           toMove == (sh[overIndex].load - sh[underIndex].load) \div 2
           cut == Min(toMove, Len(sh[overIndex].transactions))
       IN IF toMove <= 0 THEN sh
          ELSE [sh EXCEPT
                  ![underIndex].transactions =
                      @ \o SubSeq(sh[overIndex].transactions, 1, cut),
                  ![underIndex].load = @ + toMove]

\* the loop over overloadedShards, each paired with underloadedShards.shift()
RECURSIVE rebalanceLoop(_, _, _)
rebalanceLoop(sh, overloadedShards, underloadedShards) ==
  IF overloadedShards = <<>> \/ underloadedShards = <<>> THEN sh
  ELSE LET overIndex == Head(overloadedShards)
           underIndex == Head(underloadedShards)
           toMove == (sh[overIndex].load - sh[underIndex].load) \div 2
           cut == Min(toMove, Len(sh[overIndex].transactions))
           transactionsToMove == SubSeq(sh[overIndex].transactions, 1, cut)
       IN IF toMove <= 0
            THEN rebalanceLoop(sh, Tail(overloadedShards), Tail(underloadedShards))
            ELSE rebalanceLoop(
                   [sh EXCEPT
                      ![overIndex].transactions = SubSeq(@, cut + 1, Len(@)),
                      ![overIndex].load = @ - toMove,
                      ![underIndex].transactions = @ \o transactionsToMove,
                      ![underIndex].load = @ + toMove],
                   Tail(overloadedShards), Tail(underloadedShards))

\* rebalance() once the REBALANCE_INTERVAL check has passed, on a table of
\* any size
rebalanceTable(sh) ==
  LET shardCount == shardCountOf(sh)
      indexes == [i \in 1..shardCount |-> i - 1]
      RECURSIVE sumLoad(_)
      sumLoad(i) == IF i < 0 THEN 0 ELSE sh[i].load + sumLoad(i - 1)
      totalLoad == sumLoad(shardCount - 1)
      \* load > avgLoad * 1.2 and load < avgLoad * 0.8, avgLoad = totalLoad / shardCount
      isOver(i) == sh[i].load * shardCount * 10 > totalLoad * 12
      isUnder(i) == ~isOver(i) /\ sh[i].load * shardCount * 10 < totalLoad * 8
  IN rebalanceLoop(sh, SelectSeq(indexes, isOver), SelectSeq(indexes, isUnder))

rebalance(s) == [s EXCEPT !.shards = rebalanceTable(@)]

\* ------------------------------------------------------------------------
\* ScalableBundleEngine
\* ------------------------------------------------------------------------
\* (the branch taken when DYNAMIC_TIMEOUT is off)
calculateDynamicTimeout_static(s) == BUNDLE_TIMEOUT

calculateDynamicTimeout(s) ==
  LET minTimeout == (BUNDLE_TIMEOUT * 2) \div 10
      dynamicTimeout ==
        (BUNDLE_TIMEOUT * (10 * BUNDLE_SIZE - 8 * Len(s.pendingTransactions)))
           \div (10 * BUNDLE_SIZE)
  IN Max(minTimeout, dynamicTimeout)

shouldExecuteEarly_full(s) == Len(s.pendingTransactions) >= BUNDLE_SIZE

shouldExecuteEarly(s) ==
  \/ Len(s.pendingTransactions) * 10 >= BUNDLE_SIZE * 7
  \/ Cardinality({i \in 1..Len(s.pendingTransactions) :
                    s.pendingTransactions[i].priority > 8000}) >= BUNDLE_MIN_SIZE

\* executeBundleTransactions(): a guarded call with the fixed key
executeBundleTransactions(s) ==
  LET c == NewId(s)
      s1 == [s EXCEPT !.ops = @ @@ (c :> NewOp("execute_bundle", "exec", 0))]
  IN executeWithGuard(s1, c)

idsOf(transactions) == [i \in 1..Len(transactions) |-> transactions[i].id]

markDispatched(s, ids) ==
  [s EXCEPT !.dispatched =
     [t \in DOMAIN @ |->
        @[t] + Cardinality({i \in 1..Len(ids) : ids[i] = t})]]

\* the loop of distributeTransactionsToWorkers: worker i takes
\* transactions.splice(0, transactionsPerWorker)
RECURSIVE distributeLoop(_, _, _, _, _)
distributeLoop(s, i, bundleId, transactions, transactionsPerWorker) ==
  IF i >= s.workers \/ transactions = <<>> THEN s
  ELSE LET n == Min(transactionsPerWorker, Len(transactions))
           workerTransactions == SubSeq(transactions, 1, n)
           rest == SubSeq(transactions, n + 1, Len(transactions))
           s1 == [s EXCEPT !.workerJobs = @ \cup
                    {[worker |-> i, bundleId |-> bundleId,
                      transactions |-> workerTransactions]}]
       IN distributeLoop(markDispatched(s1, workerTransactions), i + 1,
                         bundleId, rest, transactionsPerWorker)

\* what the loop's transactions.splice(0, transactionsPerWorker) calls leave
\* in the array it was handed
RECURSIVE spliceLoop(_, _, _, _)
spliceLoop(s, i, transactions, transactionsPerWorker) ==
  IF i >= s.workers \/ transactions = <<>> THEN transactions
  ELSE spliceLoop(s, i + 1,
                  SubSeq(transactions,
                         Min(transactionsPerWorker, Len(transactions)) + 1,
                         Len(transactions)),
                  transactionsPerWorker)

leftByDistribution(s, transactions) ==
  spliceLoop(s, 0, transactions,
             (Len(transactions) + s.workers - 1) \div s.workers)

distributeTransactionsToWorkers(s, bundleId, transactions) ==
  LET transactionsPerWorker ==
        (Len(transactions) + s.workers - 1) \div s.workers
  IN distributeLoop(s, 0, bundleId, transactions, transactionsPerWorker)

\* the guarded function of executeBundleTransactions up to its first await
execBody(s, c) ==
  IF s.pendingTransactions = <<>> \/ s.bundleInProgress
    THEN settle(s, c, "ok")
    ELSE
      LET s1 == [s EXCEPT !.bundleInProgress = TRUE, !.bundleTimer = 0]
          transactionsToExecute ==
            getOptimizedTransactions(
              s1, Min(Len(s1.pendingTransactions), BUNDLE_SIZE))
          bundleId == s1.bundleCount + 1
          members == idsOf(transactionsToExecute)
          transactionIds == {members[i] : i \in 1..Len(members)}
          s2 == removeTransactions(s1, transactionIds)
          s3 == [s2 EXCEPT
                   !.pendingTransactions = withoutIds(@, transactionIds),
                   !.bundleCount = bundleId,
                   !.lastBundle = [id |-> bundleId, members |-> members],
                   !.selected = [t \in DOMAIN @ |->
                                   IF t \in transactionIds THEN @[t] + 1 ELSE @[t]],
                   !.ops[c].bundleId = bundleId]
      IN IF s3.workers = 0
           THEN \* await executeTransactionsSync(bundleId, transactionsToExecute)
                \* which leaves the array as it is
                [s3 EXCEPT !.ops[c].todo = members,
                           !.ops[c].count = Len(members)]
           ELSE \* distribute, return transactionsToExecute.length, finally:
                \* bundleInProgress = false
                LET s4 == distributeTransactionsToWorkers(s3, bundleId, members)
                    left == leftByDistribution(s3, members)
                IN settle([s4 EXCEPT !.bundleInProgress = FALSE,
                                     !.ops[c].count = Len(left)], c, "ok")

\* (an amount check that also turns MAX_AMOUNT away)
amountRejected_atCap(amount) == amount <= 0 \/ amount >= MAX_AMOUNT

\* !amount, amount <= 0 || amount > MAX_AMOUNT
amountRejected(amount) == amount <= 0 \/ amount > MAX_AMOUNT

\* the guarded function of addTransaction; it contains no await
addBody(s, c) ==
  LET amount == s.ops[c].amount
      fromWallet == s.ops[c].from
  IN
  IF amountRejected(amount)
    THEN settle(s, c, "err")
  ELSE IF fromWallet = Malformed
    THEN \* new PublicKey(...) throws
         settle(s, c, "err")
    ELSE
      LET transactionId == s.nextId + 1
          transaction == [id |-> transactionId, fromWallet |-> fromWallet,
                          amount |-> amount, timestamp |-> s.now,
                          priority |-> calculatePriority(amount, s.now - s.now)]
          s1 == Optimizer_addTransaction(
                  [s EXCEPT !.nextId = transactionId], transaction)
          s2 == assignToShard(s1, transaction)
          s3 == [s2 EXCEPT !.pendingTransactions = Append(@, transaction)]
          s4 == IF s3.bundleTimer = 0 /\ Len(s3.pendingTransactions) > 0
                  THEN [s3 EXCEPT !.bundleTimer = calculateDynamicTimeout(s3)]
                  ELSE s3
          s5 == IF shouldExecuteEarly(s4) /\ ~s4.bundleInProgress
                  THEN executeBundleTransactions(
                         [s4 EXCEPT !.bundleTimer = 0,
                                    !.ops[c].early = s4.bundleCount + 1])
                  ELSE s4
      IN settle(s5, c, "ok")

\* the synchronous part of the guarded function, up to its first await
fnStart(s, c) ==
  LET op == s.ops[c] IN
  CASE op.fn = "incr" ->
         [s EXCEPT !.ops[c].local = s.counter[op.key]]
    [] op.fn = "add" -> addBody(s, c)
    [] op.fn = "exec" -> execBody(s, c)
    [] op.fn = "reenter" ->
         LET inner == NewId(s)
             s1 == [s EXCEPT !.ops = [@ EXCEPT ![c].wait = inner]
                                       @@ (inner :> NewOp(op.key, "incr", c))]
         IN executeWithGuard(s1, inner)

\* executeWithGuard for call c, which is already recorded in s.ops
executeWithGuard(s, c) ==
  LET operationId == s.ops[c].key IN
  IF isLocked(s, operationId)
    THEN _addToPendingQueue(s, operationId, c)
    ELSE LET s1 == _lock(s, operationId)
             s2 == [s1 EXCEPT !.ops[c].st = "running",
                              !.startLog[operationId] = Append(@, c)]
         IN fnStart(s2, c)

_processPendingOperations_none(s, operationId) == s

_processPendingOperations(s, operationId) ==
  IF s.pendingOperations[operationId] = <<>>
    THEN s
    ELSE LET nextOp == Head(s.pendingOperations[operationId])
             s1 == [s EXCEPT !.pendingOperations[operationId] = Tail(@)]
         IN executeWithGuard(s1, nextOp)

\* the continuation of executeWithGuard after `await fn.apply(...)`:
\* deliver the result, then the finally block (unlock, drain one)
guardRelease(s, c) ==
  LET operationId == s.ops[c].key
      notC(d) == d # c
      s1 == [s EXCEPT !.ops[c].st = "done",
                      !.ops[c].result =
                          IF s.ops[c].outcome = "ok" THEN "resolved" ELSE "rejected",
                      !.microtasks = SelectSeq(@, notC)]
      s2 == _unlock(s1, operationId)
  IN _processPendingOperations(s2, operationId)

\* ------------------------------------------------------------------------
\* Actions of the guard alone
\* ------------------------------------------------------------------------
\* a caller issues executeWithGuard(key, fn)
Call(key, fn) ==
  /\ Cardinality(DOMAIN ops) + (IF fn = "reenter" THEN 2 ELSE 1) <= callLimit
  /\ LET c == NewId(Cur)
         s1 == [Cur EXCEPT !.ops = @ @@ (c :> NewOp(key, fn, 0))]
     IN Commit(executeWithGuard(s1, c))

\* the guarded function of call c settles (returns or throws)
FnFinish(c, ok) ==
  /\ c \in DOMAIN ops
  /\ ops[c].st = "running"
  /\ ops[c].fn \in GuardFns
  /\ ops[c].wait # 0 => ops[ops[c].wait].st = "done"
  /\ LET op == ops[c]
         good == IF op.wait # 0 THEN ops[op.wait].result = "resolved" ELSE ok
         s1 == settle(Cur, c, IF good THEN "ok" ELSE "err")
         s2 == IF op.fn = "incr" /\ good
                 THEN [s1 EXCEPT !.counter[op.key] = op.local + 1]
                 ELSE s1
     IN Commit(s2)

\* the guard's continuation for call c runs: it is the oldest one queued
Release(c) ==
  /\ c \in DOMAIN ops
  /\ ops[c].st = "settled"
  /\ c = Head(microtasks)
  /\ Commit(guardRelease(Cur, c))

\* ------------------------------------------------------------------------
\* Actions of the engine
\* ------------------------------------------------------------------------
\* a caller calls addTransaction(fromKeypair, toWallet, amount, ip); allowed is
\* the verdict of throttlingManager.isAllowed(ip), which depends on wall-clock
\* time
\* (callers may call in any tick, also between a handler and its continuation)
Deep == callLimit > MaxAddCalls

\* the calls made so far are fewer than MaxHighCalls, all carried a high
\* amount, and their transfers are all pending
HighRun ==
  /\ addCalls < MaxHighCalls
  /\ Len(pendingTransactions) = addCalls
  /\ \A i \in 1..Len(pendingTransactions) :
       pendingTransactions[i].amount = 1000

AddTransaction(from, amount, allowed) ==
  /\ addCalls < callLimit
  /\ Deep => /\ from = 1
             /\ allowed
             /\ amount = 1 \/ (amount = 1000 /\ HighRun)
  /\ IF ~allowed
       THEN Commit([Cur EXCEPT !.addCalls = @ + 1])
       ELSE LET c == NewId(Cur)
                s1 == [Cur EXCEPT
                         !.addCalls = @ + 1,
                         !.ops = @ @@ (c :> [NewOp(AddKey(from), "add", 0)
                                   EXCEPT !.from = from, !.amount = amount])]
            IN Commit(executeWithGuard(s1, c))

\* a caller calls executeBundleTransactions()
ExecuteBundle ==
  /\ ~Deep
  /\ execCalls < MaxExecCalls
  /\ Commit(executeBundleTransactions([Cur EXCEPT !.execCalls = @ + 1]))

\* timers, I/O completions and worker messages are macrotasks: the event loop
\* runs them only when no promise continuation is pending
NoMicrotask ==
  /\ microtasks = <<>>
  /\ \A c \in DOMAIN ops :
       ~(ops[c].fn = "exec" /\ ops[c].st = "running" /\ ops[c].todo = <<>>)

\* the bundle timer armed by addTransaction fires
TimerFire ==
  /\ NoMicrotask
  /\ bundleTimer # 0
  /\ timerFires < MaxTimerFires
  /\ LET s1 == [Cur EXCEPT !.bundleTimer = 0, !.timerFires = @ + 1]
     IN Commit(IF Len(s1.pendingTransactions) > 0 /\ ~s1.bundleInProgress
                 THEN executeBundleTransactions(s1)
                 ELSE s1)

\* (a loop without the try/catch: the first failure ends it)
submitNext_abort(s, c, ok) ==
  LET t == Head(s.ops[c].todo)
      s1 == markDispatched(s, <<t>>)
  IN IF ok
       THEN [s1 EXCEPT !.executedBundles =
               @ (+) SetToBag({[id |-> s.ops[c].bundleId, tx |-> t]}),
                       !.ops[c].todo = Tail(@)]
       ELSE [s1 EXCEPT !.failures = @ + 1, !.ops[c].todo = <<>>]

\* (a loop over the live pool instead of the selected slice: the transfers
\* admitted meanwhile join the bundle being executed)
submitNext_live(s, c, ok) ==
  LET t == Head(s.ops[c].todo)
      s1 == markDispatched(s, <<t>>)
      s2 == IF ok
              THEN [s1 EXCEPT !.executedBundles =
                      @ (+) SetToBag({[id |-> s.ops[c].bundleId, tx |-> t]})]
              ELSE [s1 EXCEPT !.failures = @ + 1]
  IN [s2 EXCEPT !.ops[c].todo = Tail(@) \o idsOf(s.pendingTransactions),
                !.pendingTransactions = <<>>]

\* one turn of the loop of executeTransactionsSync: the next member is
\* submitted; a success is pushed to executedBundles, a failure is caught
submitNext(s, c, ok) ==
  LET t == Head(s.ops[c].todo)
      s1 == markDispatched(s, <<t>>)
      s2 == IF ok
              THEN [s1 EXCEPT !.executedBundles =
                      @ (+) SetToBag({[id |-> s.ops[c].bundleId, tx |-> t]})]
              ELSE [s1 EXCEPT !.failures = @ + 1]
  IN [s2 EXCEPT !.ops[c].todo = Tail(@)]

\* executeTransactionsSync: createAndSendTransaction of the next member
\* returns (ok) or throws
SubmitMember(c, ok) ==
  /\ NoMicrotask
  /\ ok \/ (~Deep /\ failures < MaxFailures)
  /\ c \in DOMAIN ops
  /\ ops[c].fn = "exec" /\ ops[c].st = "running" /\ ops[c].todo # <<>>
  /\ Commit(submitNext(Cur, c, ok))

\* executeTransactionsSync returned: return the result, finally block
ExecFinish(c) ==
  /\ c \in DOMAIN ops
  /\ ops[c].fn = "exec" /\ ops[c].st = "running" /\ ops[c].todo = <<>>
  /\ Commit(settle([Cur EXCEPT !.bundleInProgress = FALSE], c, "ok"))

\* a worker finishes the next transaction of a message and posts the result;
\* handleWorkerResult records it
WorkerStep(job) ==
  /\ NoMicrotask
  /\ job \in workerJobs
  /\ LET t == Head(job.transactions)
         rest == Tail(job.transactions)
         s1 == [Cur EXCEPT !.executedBundles =
                  @ (+) SetToBag({[id |-> job.bundleId, tx |-> t]})]
     IN Commit([s1 EXCEPT !.workerJobs =
                  (@ \ {job}) \cup
                  (IF rest = <<>> THEN {}
                   ELSE {[job EXCEPT !.transactions = rest]})])

\* the rebalance timer fires after REBALANCE_INTERVAL
Rebalance ==
  /\ NoMicrotask
  /\ ~Deep
  /\ rebalances < MaxRebalances
  /\ Commit(rebalance([Cur EXCEPT !.rebalances = @ + 1]))

\* the guard's continuation for call c of the engine runs; the finished call
\* and its log entry are not kept, and the calls still in flight are
\* renumbered 1..n in their arrival order
dropFinished(s, c) ==
  LET n == Cardinality(DOMAIN s.ops)
      notC(d) == d # c
      ren(d) == IF d > c THEN d - 1 ELSE d
      renSeq(q) == LET q1 == SelectSeq(q, notC)
                   IN [i \in 1..Len(q1) |-> ren(q1[i])]
  IN [s EXCEPT
        !.ops = [d \in 1..(n - 1) |->
                   LET op == s.ops[IF d >= c THEN d + 1 ELSE d]
                   IN [op EXCEPT !.wait = ren(@), !.parent = ren(@)]],
        !.pendingOperations = [k \in Keys |-> renSeq(@[k])],
        !.startLog = [k \in Keys |-> renSeq(@[k])],
        !.microtasks = renSeq(@)]

EngineRelease(c) ==
  /\ c \in DOMAIN ops
  /\ ops[c].st = "settled"
  /\ c = Head(microtasks)
  /\ Commit(dropFinished(guardRelease(Cur, c), c))

\* ------------------------------------------------------------------------
\* ThrottlingManager
\* ------------------------------------------------------------------------
\* the manager as one value; ret is what the last isAllowed returned
Throttle ==
  [requests |-> requests, blockedIPs |-> blockedIPs,
   globalRequests |-> globalRequests, now |-> clock, ret |-> FALSE]

\* timestamps.filter(timestamp => now - timestamp < window)
recent(timestamps, now, window) ==
  LET young(timestamp) == now - timestamp < window
  IN SelectSeq(timestamps, young)

\* isAllowed: the source has a block entry that has not expired
blockActive_never(t, ip) == FALSE

blockActive_inclusive(t, ip) ==
  t.blockedIPs[ip] # 0 /\ t.now <= t.blockedIPs[ip]

blockActive(t, ip) ==
  t.blockedIPs[ip] # 0 /\ t.now < t.blockedIPs[ip]

\* isAllowed: the per-source limit is reached
overQuota_lax(ipRequests) == Len(ipRequests) > MAX_REQUESTS_PER_IP

overQuota(ipRequests) == Len(ipRequests) >= MAX_REQUESTS_PER_IP

isAllowed(t, ip) ==
  IF blockActive(t, ip)
    THEN [t EXCEPT !.ret = FALSE]
    ELSE
      LET t1 == [t EXCEPT !.blockedIPs[ip] = 0,
                          !.globalRequests = recent(@, t.now, GlobalWindow)]
          ipRequests == recent(t1.requests[ip], t.now, windowMs)
      IN IF Len(t1.globalRequests) >= MAX_REQUESTS_PER_SECOND
           THEN [t1 EXCEPT !.ret = FALSE]
           ELSE IF overQuota(ipRequests)
             THEN [t1 EXCEPT !.blockedIPs[ip] = t.now + blockDuration,
                             !.ret = FALSE]
             ELSE [t1 EXCEPT !.globalRequests = Append(@, t.now),
                             !.requests[ip] = Append(ipRequests, t.now),
                             !.ret = TRUE]

recordRequest(t, ip) ==
  [t EXCEPT !.globalRequests = Append(@, t.now),
            !.requests[ip] = Append(@, t.now)]

cleanup(t) ==
  [t EXCEPT
     !.globalRequests = recent(@, t.now, GlobalWindow),
     !.requests = [ip \in Sources |-> recent(@[ip], t.now, windowMs)],
     !.blockedIPs = [ip \in Sources |->
                       IF @[ip] # 0 /\ t.now > @[ip] THEN 0 ELSE @[ip]]]

\* the checks of addTransaction before it enters the guard: isAllowed, then
\* recordRequest when the request was allowed
throttledRequest(t, ip) ==
  LET t1 == isAllowed(t, ip)
  IN IF t1.ret THEN recordRequest(t1, ip) ELSE t1

\* ------------------------------------------------------------------------
\* Observation of the throttling manager's callers
\* ------------------------------------------------------------------------
NoStreak == [kind |-> "none", n |-> 0, start |-> 0]

\* the global one-second window has room at this instant
GlobalFree ==
  Len(recent(globalRequests, clock, GlobalWindow)) < MAX_REQUESTS_PER_SECOND

\* the source is not blocked and has no timestamp in its window
Fresh(ip) ==
  /\ blockedIPs[ip] = 0 \/ clock >= blockedIPs[ip]
  /\ recent(requests[ip], clock, windowMs) = <<>>

\* the streak of the source after a call of the given kind ("bare": isAllowed
\* alone, "request": isAllowed then recordRequest): the call is number n of a
\* run of calls of that kind that started with the source fresh, all made
\* inside one window, each with the global limit not reached
streakAfter(ip, kind) ==
  LET cur == streak[ip]
  IN IF /\ cur.kind = kind
        /\ cur.n <= MAX_REQUESTS_PER_IP
        /\ clock - cur.start < windowMs
        /\ GlobalFree
       THEN [cur EXCEPT !.n = @ + 1]
       ELSE IF Fresh(ip) /\ GlobalFree
         THEN [kind |-> kind, n |-> 1, start |-> clock]
         ELSE NoStreak

\* the expiry of the source's latest block, forgotten by the first isAllowed
\* call made at or after it
lastBlockAfter(t, ip) ==
  IF t.blockedIPs[ip] # 0 /\ t.blockedIPs[ip] # blockedIPs[ip]
    THEN t.blockedIPs[ip]
    ELSE IF clock >= lastBlock[ip] THEN 0 ELSE lastBlock[ip]

ThrottleCommit(t, op, ip, ret) ==
  /\ requests' = t.requests
  /\ blockedIPs' = t.blockedIPs
  /\ globalRequests' = t.globalRequests
  /\ calls' = calls + 1
  /\ lastCall' = [op |-> op, ip |-> ip, ret |-> ret]
  /\ UNCHANGED <<clock, windowMs, blockDuration, cacheVars, scalingVars,
                 engineVars>>

\* ------------------------------------------------------------------------
\* Actions of the throttling manager
\* ------------------------------------------------------------------------
\* a caller calls isAllowed(ip)
IsAllowed(ip) ==
  /\ calls < MaxThrottleCalls
  /\ \E t \in {isAllowed(Throttle, ip)} :
       /\ ThrottleCommit(t, "isAllowed", ip, t.ret)
       /\ lastBlock' = [lastBlock EXCEPT ![ip] = lastBlockAfter(t, ip)]
       /\ streak' = [streak EXCEPT ![ip] = streakAfter(ip, "bare")]

\* a caller calls recordRequest(ip)
RecordRequest(ip) ==
  /\ calls < MaxThrottleCalls
  /\ ThrottleCommit(recordRequest(Throttle, ip), "recordRequest", ip, TRUE)
  /\ streak' = [streak EXCEPT ![ip] = NoStreak]
  /\ UNCHANGED lastBlock

\* a request goes through the checks of addTransaction
Request(ip) ==
  /\ calls < MaxThrottleCalls
  /\ \E t \in {throttledRequest(Throttle, ip)} :
       /\ ThrottleCommit(t, "request", ip, t.ret)
       /\ lastBlock' = [lastBlock EXCEPT ![ip] = lastBlockAfter(t, ip)]
       /\ streak' = [streak EXCEPT ![ip] = streakAfter(ip, "request")]

\* the cleanup interval timer fires
Cleanup ==
  /\ \E t \in {cleanup(Throttle)} :
       /\ requests' = t.requests
       /\ blockedIPs' = t.blockedIPs
       /\ globalRequests' = t.globalRequests
  /\ UNCHANGED <<clock, calls, lastCall, windowMs, blockDuration, lastBlock,
                 streak, cacheVars, scalingVars, engineVars>>

\* ------------------------------------------------------------------------
\* CacheManager
\* ------------------------------------------------------------------------
\* the manager as one value; ret is what the last get returned (0 = null)
Cache ==
  [cache |-> cache, lastPruneTime |-> lastPruneTime, now |-> clock, ret |-> 0]

\* the position of the key in the Map, 0 when the Map does not hold it
indexOf(entries, key) ==
  IF \E i \in 1..Len(entries) : entries[i].key = key
    THEN CHOOSE i \in 1..Len(entries) : entries[i].key = key
    ELSE 0

\* Map.delete
without(entries, key) ==
  LET other(item) == item.key # key
  IN SelectSeq(entries, other)

\* Date.now() > item.expiresAt
expired_early(item, now) == now >= item.expiresAt

expired(item, now) == now > item.expiresAt

get(c, key) ==
  LET i == indexOf(c.cache, key)
  IN IF i = 0
       THEN [c EXCEPT !.ret = 0]
       ELSE IF expired(c.cache[i], c.now)
         THEN [c EXCEPT !.cache = without(@, key), !.ret = 0]
         ELSE [c EXCEPT !.cache[i].lastAccessed = c.now,
                        !.ret = c.cache[i].value]

\* the last n of the sorted items instead of the first n
RECURSIVE leastRecentlyUsed_newest(_, _)
leastRecentlyUsed_newest(entries, n) ==
  IF n <= 0 \/ entries = <<>>
    THEN {}
    ELSE LET newest ==
               CHOOSE i \in 1..Len(entries) :
                 \A j \in 1..Len(entries) :
                   \/ entries[i].lastAccessed > entries[j].lastAccessed
                   \/ entries[i].lastAccessed = entries[j].lastAccessed /\ i >= j
             key == entries[newest].key
         IN {key} \cup leastRecentlyUsed_newest(without(entries, key), n - 1)

\* items.sort by lastAccessed (a stable sort), then the first n of them
RECURSIVE leastRecentlyUsed(_, _)
leastRecentlyUsed(entries, n) ==
  IF n <= 0 \/ entries = <<>>
    THEN {}
    ELSE LET oldest ==
               CHOOSE i \in 1..Len(entries) :
                 \A j \in 1..Len(entries) :
                   \/ entries[i].lastAccessed < entries[j].lastAccessed
                   \/ entries[i].lastAccessed = entries[j].lastAccessed /\ i <= j
             key == entries[oldest].key
         IN {key} \cup leastRecentlyUsed(without(entries, key), n - 1)

prune(c, force) ==
  IF ~force /\ c.now - c.lastPruneTime < PRUNE_INTERVAL
    THEN c
    ELSE
      LET fresh(item) == ~(c.now > item.expiresAt)
          kept == SelectSeq(c.cache, fresh)
          itemsToRemove == leastRecentlyUsed(kept, Len(kept) - MAX_SIZE)
          stays(item) == item.key \notin itemsToRemove
      IN [c EXCEPT !.lastPruneTime = c.now,
                   !.cache = IF Len(kept) > MAX_SIZE
                               THEN SelectSeq(kept, stays) ELSE kept]

\* set(key, value, ttl); a ttl of 0 stands for every falsy ttl (omitted, null
\* or 0), which selects the default TTL
set(c, key, value, ttl) ==
  LET c1 == IF Len(c.cache) >= MAX_SIZE THEN prune(c, TRUE) ELSE c
      expiresAt == c.now + (IF ttl # 0 THEN ttl ELSE TTL)
      item == [key |-> key, value |-> value, expiresAt |-> expiresAt,
               lastAccessed |-> c.now]
      i == indexOf(c1.cache, key)
  IN IF i = 0
       THEN [c1 EXCEPT !.cache = Append(@, item)]
       ELSE [c1 EXCEPT !.cache[i] = item]

delete(c, key) == [c EXCEPT !.cache = without(@, key)]

\* ------------------------------------------------------------------------
\* Observation of the cache's callers
\* ------------------------------------------------------------------------
\* what the last set of each key wrote, and whether the entry has been deleted
\* or evicted before its expiry since then
NeverWritten == [value |-> 0, expiresAt |-> 0, live |-> FALSE]

writtenAfter(entries) ==
  [k \in CacheKeys |->
     [written[k] EXCEPT
        !.live = @ /\ (indexOf(entries, k) # 0 \/ clock > written[k].expiresAt)]]

CacheCommit(c, op, key, ret) ==
  /\ cache' = c.cache
  /\ lastPruneTime' = c.lastPruneTime
  /\ calls' = calls + 1
  /\ lastCall' = [op |-> op, key |-> key, ret |-> ret]
  /\ UNCHANGED <<clock, throttleVars, scalingVars, engineVars>>
  \* (the observation `written` is set by each action)

\* the keys the callers use are taken in order: key n + 1 after key n
KnownKeys == {k \in CacheKeys : k = 1 \/ written[k].value # 0
                                      \/ written[k - 1].value # 0}

\* ------------------------------------------------------------------------
\* Actions of the cache
\* ------------------------------------------------------------------------
\* a caller calls set(key, value, ttl); the value is new each time
Set(key, ttl) ==
  /\ calls < MaxCacheCalls
  /\ key \in KnownKeys
  /\ \E c \in {set(Cache, key, calls + 1, ttl)} :
       /\ CacheCommit(c, "set", key, 0)
       /\ written' = [writtenAfter(c.cache) EXCEPT
                        ![key] = [value |-> calls + 1,
                                  expiresAt |-> clock +
                                    (IF ttl # 0 THEN ttl ELSE TTL),
                                  live |-> TRUE]]

\* a caller calls get(key)
Get(key) ==
  /\ calls < MaxCacheCalls
  /\ key \in KnownKeys
  /\ \E c \in {get(Cache, key)} :
       /\ CacheCommit(c, "get", key, c.ret)
       /\ written' = writtenAfter(c.cache)

\* a caller calls delete(key)
Delete(key) ==
  /\ calls < MaxCacheCalls
  /\ key \in KnownKeys
  /\ \E c \in {delete(Cache, key)} :
       /\ CacheCommit(c, "delete", key, 0)
       /\ written' = writtenAfter(c.cache)

\* the prune interval timer fires (force = FALSE), or a caller calls
\* prune(force)
Prune(force) ==
  /\ \E c \in {prune(Cache, force)} :
       /\ cache' = c.cache
       /\ lastPruneTime' = c.lastPruneTime
       /\ written' = writtenAfter(c.cache)
  /\ UNCHANGED <<clock, calls, lastCall, throttleVars, scalingVars,
                 engineVars>>

CacheFields ==
  /\ cache = <<>>
  /\ lastPruneTime = 0
  /\ written = [k \in CacheKeys |-> NeverWritten]

\* ------------------------------------------------------------------------
\* AutoScalingManager
\* ------------------------------------------------------------------------
\* the manager as one value
AutoScaling ==
  [currentWorkers |-> currentWorkers, lastScaleTime |-> lastScaleTime,
   cpuHistory |-> cpuHistory]

RECURSIVE SumSeq(_)
SumSeq(q) == IF q = <<>> THEN 0 ELSE Head(q) + SumSeq(Tail(q))

\* avgCpuUsage > threshold and avgCpuUsage < threshold, in percent
avgAbove_orEqual(history, threshold) ==
  SumSeq(history) >= threshold * Len(history)

avgAbove(history, threshold) == SumSeq(history) > threshold * Len(history)

avgBelow(history, threshold) == SumSeq(history) < threshold * Len(history)

scaleWorkers(a, newWorkerCount) ==
  IF newWorkerCount = a.currentWorkers
    THEN a
    ELSE [a EXCEPT !.currentWorkers = newWorkerCount]

\* the condition under which checkScaling scales up
mayScaleUp(a) ==
  avgAbove(a.cpuHistory, SCALE_UP_THRESHOLD) /\ a.currentWorkers < MAX_WORKERS

\* checkScaling up to `await this.getCPUUsage()`: TRUE when the cooldown check
\* lets the call go on
checkScalingPasses(a, now) == ~(now - a.lastScaleTime < COOLDOWN_PERIOD)

\* checkScaling from the moment getCPUUsage has resolved with cpuUsage; now is
\* the time the call read before the await
checkScalingResume(a, now, cpuUsage) ==
  LET pushed == Append(a.cpuHistory, cpuUsage)
      a1 == [a EXCEPT !.cpuHistory = IF Len(pushed) > historyMaxLength
                                       THEN Tail(pushed) ELSE pushed]
  IN IF mayScaleUp(a1)
       THEN [scaleWorkers(a1, Min(a1.currentWorkers + 1, MAX_WORKERS))
               EXCEPT !.lastScaleTime = now]
       ELSE IF /\ avgBelow(a1.cpuHistory, SCALE_DOWN_THRESHOLD)
               /\ a1.currentWorkers > MIN_WORKERS
         THEN [scaleWorkers(a1, Max(a1.currentWorkers - 1, MIN_WORKERS))
                 EXCEPT !.lastScaleTime = now]
         ELSE a1

\* ------------------------------------------------------------------------
\* Actions of the auto-scaling manager
\* ------------------------------------------------------------------------
\* the scale check timer fires, or a caller calls checkScaling(): the call
\* returns at the cooldown check or starts a CPU sample and awaits it
CheckScaling ==
  /\ calls < MaxScaleChecks
  /\ calls' = calls + 1
  /\ scaleChecks' = IF checkScalingPasses(AutoScaling, clock)
                      THEN Append(scaleChecks, clock) ELSE scaleChecks
  /\ UNCHANGED <<clock, lastCall, currentWorkers, lastScaleTime, cpuHistory,
                 lastAction, throttleVars, cacheVars, engineVars>>

\* the oldest CPU sample under way resolves with cpuUsage (the sample timers
\* all last 100 ms, so they fire in the order they were set) and the
\* checkScaling call that awaited it goes on to its end
CpuSampled(cpuUsage) ==
  /\ scaleChecks # <<>>
  /\ \E a \in {checkScalingResume(AutoScaling, Head(scaleChecks), cpuUsage)} :
       /\ currentWorkers' = a.currentWorkers
       /\ lastScaleTime' = a.lastScaleTime
       /\ cpuHistory' = a.cpuHistory
       /\ lastAction' = IF a.currentWorkers # currentWorkers
                          THEN clock ELSE lastAction
  /\ scaleChecks' = Tail(scaleChecks)
  /\ UNCHANGED <<clock, calls, lastCall, throttleVars, cacheVars, engineVars>>

\* after construction; time is counted from the construction, which makes the
\* initial lastScaleTime of 0 (the epoch) a time more than COOLDOWN_PERIOD ago
AutoScalingFields ==
  /\ currentWorkers = MIN_WORKERS
  /\ lastScaleTime = 0 - COOLDOWN_PERIOD
  /\ cpuHistory = <<>>
  /\ scaleChecks = <<>>
  /\ lastAction = NoAction

\* time passes
Tick ==
  /\ clock < MaxClock
  /\ clock' = clock + 1
  /\ UNCHANGED <<calls, lastCall, throttleVars, cacheVars, scalingVars,
                 engineVars>>

\* the managers after construction; the engine runs are not concerned with them
NoCall == [op |-> "none", ip |-> "none", ret |-> FALSE]

ThrottleFields ==
  /\ requests = [ip \in Sources |-> <<>>]
  /\ blockedIPs = [ip \in Sources |-> 0]
  /\ globalRequests = <<>>
  /\ lastBlock = [ip \in Sources |-> 0]
  /\ streak = [ip \in Sources |-> NoStreak]

ManagerFields ==
  /\ clock = 0
  /\ calls = 0
  /\ lastCall = NoCall
  /\ ThrottleFields
  /\ CacheFields
  /\ AutoScalingFields
  /\ windowMs = DefaultWindow
  /\ blockDuration = DefaultBlock

\* the transfer ids that can be minted
TxIds == 1..Max(MaxAddCalls, MaxDeepCalls)

\* the fields of the guard and of the engine after construction
GuardFields ==
  /\ locks = [k \in Keys |-> FALSE]
  /\ pendingOperations = [k \in Keys |-> <<>>]
  /\ ops = << >>
  /\ counter = [k \in Keys |-> 0]
  /\ startLog = [k \in Keys |-> <<>>]
  /\ microtasks = <<>>

EngineFields ==
  /\ pendingTransactions = <<>>
  /\ priorityQueue = <<>>
  /\ transactionGroups = [f \in {} |-> <<>>]
  /\ shards = [i \in 0..(SHARD_COUNT - 1) |-> [transactions |-> <<>>, load |-> 0]]
  /\ bundleTimer = 0
  /\ bundleInProgress = FALSE
  /\ executedBundles = EmptyBag
  /\ workerJobs = {}
  /\ nextId = 0
  /\ bundleCount = 0
  /\ lastBundle = [id |-> 0, members |-> <<>>]
  /\ selected = [t \in TxIds |-> 0]
  /\ dispatched = [t \in TxIds |-> 0]
  /\ rebalances = 0
  /\ timerFires = 0
  /\ addCalls = 0
  /\ execCalls = 0
  /\ failures = 0

EngineInit ==
  /\ GuardFields
  /\ EngineFields
  /\ ManagerFields
  /\ callLimit \in {MaxAddCalls, MaxDeepCalls}
  /\ workers \in {0, MaxWorkers}
  /\ callLimit = MaxDeepCalls => workers = 0

EngineNext ==
  \/ \E from \in Senders, amount \in Amounts, allowed \in BOOLEAN :
       AddTransaction(from, amount, allowed)
  \/ ExecuteBundle
  \/ TimerFire
  \/ \E c \in DOMAIN ops, ok \in BOOLEAN : SubmitMember(c, ok)
  \/ \E c \in DOMAIN ops : ExecFinish(c)
  \/ \E c \in DOMAIN ops : EngineRelease(c)
  \/ \E job \in workerJobs : WorkerStep(job)
  \/ Rebalance

EngineSpec == EngineInit /\ [][EngineNext]_vars

GuardInit ==
  /\ GuardFields
  /\ EngineFields
  /\ ManagerFields
  /\ workers = 0
  /\ callLimit = MaxCalls

GuardLiveInit ==
  /\ GuardFields
  /\ EngineFields
  /\ ManagerFields
  /\ workers = 0
  /\ callLimit = MaxLiveCalls

GuardNext ==
  \/ \E key \in GuardKeys, fn \in GuardFns : Call(key, fn)
  \/ \E c \in 1..MaxCalls, ok \in BOOLEAN : FnFinish(c, ok)
  \/ \E c \in 1..MaxCalls : Release(c)

GuardSpec == GuardInit /\ [][GuardNext]_vars

\* the scheduling the event loop guarantees: a settled function's continuation
\* runs, and a guarded function that can settle does settle
GuardLiveSpec ==
  /\ GuardLiveInit /\ [][GuardNext]_vars
  /\ WF_vars(\E c \in 1..MaxCalls, ok \in BOOLEAN : FnFinish(c, ok))
  /\ WF_vars(\E c \in 1..MaxCalls : Release(c))

ThrottleInit ==
  /\ GuardFields
  /\ EngineFields
  /\ workers = 0
  /\ callLimit = 0
  /\ clock = 0
  /\ calls = 0
  /\ lastCall = NoCall
  /\ ThrottleFields
  /\ CacheFields
  /\ AutoScalingFields
  /\ \E cfg \in ThrottleConfigs :
       windowMs = cfg.window /\ blockDuration = cfg.block

ThrottleNext ==
  \/ \E ip \in Sources : IsAllowed(ip)
  \/ \E ip \in Sources : RecordRequest(ip)
  \/ \E ip \in Sources : Request(ip)
  \/ Cleanup
  \/ Tick

ThrottleSpec == ThrottleInit /\ [][ThrottleNext]_vars

CacheInit ==
  /\ GuardFields
  /\ EngineFields
  /\ workers = 0
  /\ callLimit = 0
  /\ clock = 0
  /\ calls = 0
  /\ lastCall = [op |-> "none", key |-> 0, ret |-> 0]
  /\ ThrottleFields
  /\ CacheFields
  /\ AutoScalingFields
  /\ windowMs = DefaultWindow
  /\ blockDuration = DefaultBlock

CacheNext ==
  \/ \E key \in CacheKeys, ttl \in Ttls : Set(key, ttl)
  \/ \E key \in CacheKeys : Get(key)
  \/ \E key \in CacheKeys : Delete(key)
  \/ \E force \in BOOLEAN : Prune(force)
  \/ Tick

CacheSpec == CacheInit /\ [][CacheNext]_vars

AutoScalingInit ==
  /\ GuardFields
  /\ EngineFields
  /\ workers = 0
  /\ callLimit = 0
  /\ ManagerFields

AutoScalingNext ==
  \/ CheckScaling
  \/ \E cpuUsage \in CpuSamples : CpuSampled(cpuUsage)
  \/ Tick

AutoScalingSpec == AutoScalingInit /\ [][AutoScalingNext]_vars

\* ------------------------------------------------------------------------
\* Properties of the guard
\* ------------------------------------------------------------------------
OpIds == DOMAIN ops
Started(c) == ops[c].st \in {"running", "settled", "done"}
OpsOf(k) == {c \in OpIds : ops[c].key = k}
Occurrences(seq, x) == Cardinality({i \in 1..Len(seq) : seq[i] = x})

\* C1: per key, the guarded function of at most one call is active at a time,
\* every started call was started exactly once, and the shared counter equals
\* the number of "incr" functions that returned (no lost or duplicated update)
C1_Exclusivity ==
  \A k \in GuardKeys :
    /\ Cardinality({c \in OpsOf(k) : ops[c].st \in {"running", "settled"}}) <= 1
    /\ \A c \in OpsOf(k) :
         Occurrences(startLog[k], c) = (IF Started(c) THEN 1 ELSE 0)
    /\ counter[k] =
         Cardinality({c \in OpsOf(k) : ops[c].fn = "incr" /\ ops[c].outcome = "ok"})

\* three calls on one key, two of them issued while the key was held, all
\* completed, and the counter at 3
C1_Witness ==
  \E k \in GuardKeys :
    /\ Cardinality({c \in OpsOf(k) : ops[c].fn = "incr" /\ ops[c].result = "resolved"}) = 3
    /\ Cardinality({c \in OpsOf(k) : ops[c].wasQueued /\ ops[c].result = "resolved"}) >= 2
    /\ counter[k] = 3

\* C2: per key, the calls start in their arrival order (calls are numbered in
\* arrival order): the start log of every key is strictly increasing
C2_FIFO ==
  \A k \in GuardKeys :
    \A i, j \in 1..Len(startLog[k]) : i < j => startLog[k][i] < startLog[k][j]

\* a key on which three calls were queued behind a holder and all were started
C2_Witness ==
  \E k \in GuardKeys :
    /\ Len(startLog[k]) >= 4
    /\ Cardinality({c \in OpsOf(k) : ops[c].wasQueued /\ Started(c)}) >= 3

\* C3 (as claimed): a call made by the holder's own function with the holder's
\* key is rejected at once
C3_ReentrancyRejected ==
  \A c \in OpIds : ops[c].parent # 0 => ops[c].result = "rejected"

\* a holder whose function waits for a call queued behind itself
HolderBlocked(p) ==
  /\ ops[p].st = "running"
  /\ ops[p].wait # 0
  /\ ops[ops[p].wait].st # "done"

\* C4, the step: when the continuation of a holder whose function failed runs,
\* that caller alone gets the rejection, and the lock passes to the oldest
\* queued call of the key (which starts) or, with none queued, the key is idle
C4_FailureStep ==
  \A c \in OpIds :
    (ops[c].st = "settled" /\ ops[c].outcome = "err" /\ ops'[c].st = "done") =>
      LET k == ops[c].key
          q == pendingOperations[k]
      IN /\ ops'[c].result = "rejected"
         /\ \A d \in OpIds \ {c} : ops'[d].result = ops[d].result
         /\ IF q = <<>>
              THEN /\ ~locks'[k]
                   /\ startLog'[k] = startLog[k]
              ELSE /\ locks'[k]
                   /\ Len(pendingOperations'[k]) >= Len(q) - 1
                   /\ SubSeq(pendingOperations'[k], 1, Len(q) - 1) = Tail(q)
                   /\ ops'[Head(q)].st = "running"
                   /\ startLog'[k] = Append(startLog[k], Head(q))
                   /\ \A i \in 2..Len(q) : ops'[q[i]].st = "queued"

IsQueued(c) == IF c \in OpIds THEN ops[c].st = "queued" ELSE FALSE
HasStarted(c) == IF c \in OpIds THEN Started(c) ELSE FALSE

\* C4: release on failure, and every queued call is eventually started unless
\* a holder's function cannot terminate
C4_ReleaseOnFailure ==
  /\ [][C4_FailureStep]_vars
  /\ \A c \in 1..MaxLiveCalls :
       IsQueued(c) ~> (HasStarted(c) \/ \E p \in OpIds : HolderBlocked(p))

\* a failed holder was followed in the start log by a call queued behind it
C4_Witness ==
  \E k \in GuardKeys : \E i \in 1..Len(startLog[k]) - 1 :
    /\ ops[startLog[k][i]].result = "rejected"
    /\ ops[startLog[k][i + 1]].wasQueued

\* C5: a call issued by a caller is queued exactly when its own key is locked
\* on arrival, whatever the state of the other keys
C5_KeyStep ==
  \A c \in (DOMAIN ops') \ (DOMAIN ops) :
    ops'[c].parent = 0 => (ops'[c].wasQueued <=> locks[ops'[c].key])

C5_KeyIndependence == [][C5_KeyStep]_vars

\* the functions of two calls on different keys are running at the same time
C5_Witness ==
  \E c, d \in OpIds :
    /\ ops[c].key # ops[d].key
    /\ ops[c].st = "running" /\ ops[d].st = "running"

\* ------------------------------------------------------------------------
\* Properties of the engine
\* ------------------------------------------------------------------------
PendingIds == {pendingTransactions[i].id : i \in 1..Len(pendingTransactions)}

\* the places <<shard, position>> at which transfer t is a member of a shard
ShardSlots(t) ==
  {sl \in UNION {{<<i, j>> : j \in 1..Len(shards[i].transactions)} :
                   i \in DOMAIN shards} :
     shards[sl[1]].transactions[sl[2]].id = t}

QueueSlots(t) == {i \in 1..Len(priorityQueue) : priorityQueue[i].id = t}

RECURSIVE SumLoad(_)
SumLoad(i) == IF i < 0 THEN 0 ELSE shards[i].load + SumLoad(i - 1)

\* C6: no double admission. No id is held twice by the pending pool, by the
\* shards or by the priority ordering, and every pending transfer is a member
\* of exactly one shard and occurs exactly once in the priority ordering,
\* whatever executeBundle and rebalance did between the admissions
C6_NoDoubleAdmission ==
  /\ \A i, j \in 1..Len(pendingTransactions) :
       i # j => pendingTransactions[i].id # pendingTransactions[j].id
  /\ \A t \in TxIds :
       /\ Cardinality(ShardSlots(t)) <= 1
       /\ Cardinality(QueueSlots(t)) <= 1
  /\ \A t \in PendingIds :
       /\ t \in 1..nextId
       /\ Cardinality(ShardSlots(t)) = 1
       /\ Cardinality(QueueSlots(t)) = 1

\* two transfers are pending and rebalance has moved one of them out of the
\* shard its sender hashes to
C6_Witness ==
  /\ rebalances >= 1
  /\ Len(pendingTransactions) >= 2
  /\ \E i \in 1..Len(pendingTransactions) :
       LET tx == pendingTransactions[i]
       IN \E sl \in ShardSlots(tx.id) : sl[1] # getShardIndex(tx)

\* a step in which executeBundle selects a bundle: one bundle per step; the
\* pending count before the selection (the transfer admitted in the same
\* step included) is the pending count after it plus the number of members;
\* no member is still pending
C7_Step ==
  bundleCount' # bundleCount =>
    /\ bundleCount' = bundleCount + 1
    /\ lastBundle'.id = bundleCount'
    /\ Len(pendingTransactions) + (nextId' - nextId) =
         Len(pendingTransactions') + Len(lastBundle'.members)
    /\ \A i \in 1..Len(lastBundle'.members) :
         /\ \A j \in 1..Len(pendingTransactions') :
              pendingTransactions'[j].id # lastBundle'.members[i]
         /\ \A j \in 1..Len(priorityQueue') :
              priorityQueue'[j].id # lastBundle'.members[i]

\* C7: conservation under selection: pendingCountBefore = pendingCountAfter +
\* selectedCount for every selection, and no transfer is both still pending
\* and a member of the selected bundle
C7_Conservation == [][C7_Step]_vars

\* a selection that took several members and left a transfer pending
C7_Witness ==
  /\ bundleCount >= 1
  /\ Len(lastBundle.members) >= 2
  /\ pendingTransactions # <<>>

\* C8 (as claimed): the members of the shards are exactly the pending
\* transfers, and the shard loads add up to the pending count
C8_ShardsArePending ==
  /\ \A i \in DOMAIN shards : \A j \in 1..Len(shards[i].transactions) :
       shards[i].transactions[j].id \in PendingIds
  /\ \A t \in PendingIds : ShardSlots(t) # {}
  /\ SumLoad(SHARD_COUNT - 1) = Len(pendingTransactions)

\* the bundle selected last has 1..BUNDLE_SIZE members, no transfer was
\* selected for two bundles, and none was handed to submission twice or
\* without being selected
C9_State ==
  /\ bundleCount >= 1 =>
       /\ Len(lastBundle.members) >= 1
       /\ Len(lastBundle.members) <= BUNDLE_SIZE
  /\ \A t \in TxIds :
       /\ selected[t] <= 1
       /\ dispatched[t] <= selected[t]

\* the members of a bundle are pending when it is selected (the transfer
\* admitted in the same step included)
C9_Step ==
  bundleCount' # bundleCount =>
    \A i \in 1..Len(lastBundle'.members) :
      \/ lastBundle'.members[i] \in PendingIds
      \/ /\ nextId' = nextId + 1
         /\ lastBundle'.members[i] = nextId'

\* C9: bundle bounds and no double submission
C9_BundleBounds == []C9_State /\ [][C9_Step]_vars

\* a bundle of BUNDLE_SIZE members was cut out of a larger pending pool and
\* every member has been handed to submission
C9_Witness ==
  /\ Len(lastBundle.members) = BUNDLE_SIZE
  /\ pendingTransactions # <<>>
  /\ \A i \in 1..Len(lastBundle.members) : dispatched[lastBundle.members[i]] = 1

\* the bundles with a member dispatched and not yet completed: the bundle of
\* a running executeTransactionsSync, and the bundles of the messages the
\* workers are processing
Executing ==
  {ops[c].bundleId : c \in {d \in DOMAIN ops :
      ops[d].fn = "exec" /\ ops[d].st = "running" /\ ops[d].bundleId # 0}}
  \cup {job.bundleId : job \in workerJobs}

\* C10 (as claimed): at most one bundle executes at a time, with and without
\* worker threads
C10_OneBundleAtATime == Cardinality(Executing) <= 1

\* C11 (as claimed): once BUNDLE_SIZE transfers have been submitted one after
\* another to an engine with an empty pool, and before any bundle timer has
\* fired, every one of them has been selected for execution
C11_BatchScenario ==
  (nextId = BUNDLE_SIZE /\ timerFires = 0) =>
    \A t \in 1..BUNDLE_SIZE : selected[t] >= 1

\* the transfer admitted by a step that mints an id
Admitted ==
  LET sl == CHOOSE x \in
              UNION {{<<i, j>> : j \in 1..Len(shards'[i].transactions)} :
                       i \in DOMAIN shards'} :
              shards'[x[1]].transactions[x[2]].id = nextId'
  IN shards'[sl[1]].transactions[sl[2]]

\* a step that admits a transfer: with the pool the admission leaves at 70%
\* of BUNDLE_SIZE or with BUNDLE_MIN_SIZE members of priority above 0.8, and
\* no bundle in flight, the timer is cancelled and a bundle is selected (or
\* its selection waits only for the continuation of the call that holds
\* 'execute_bundle'); otherwise no bundle is selected, a timer is armed if
\* none was, and an armed timer is left alone
C12_AdmissionStep ==
  nextId' = nextId + 1 =>
    LET pool == Append(pendingTransactions, Admitted)
        high == {i \in 1..Len(pool) : pool[i].priority > 8000}
        early == \/ Len(pool) * 10 >= BUNDLE_SIZE * 7
                 \/ Cardinality(high) >= BUNDLE_MIN_SIZE
    IN IF early /\ ~bundleInProgress
         THEN /\ bundleTimer' = 0
              /\ \/ bundleCount' = bundleCount + 1
                 \/ /\ locks["execute_bundle"]
                    /\ Len(pendingOperations'["execute_bundle"]) =
                         Len(pendingOperations["execute_bundle"]) + 1
         ELSE /\ bundleCount' = bundleCount
              /\ bundleTimer = 0 => bundleTimer' # 0
              /\ bundleTimer # 0 => bundleTimer' = bundleTimer

\* when the continuation of an addTransaction call that executed early is the
\* next to run (the call is about to return), the bundle has been selected
C12_SelectedBeforeReturn ==
  \A c \in DOMAIN ops :
    (ops[c].fn = "add" /\ ops[c].early # 0 /\ ops[c].st = "settled"
       /\ Head(microtasks) = c) => bundleCount >= ops[c].early

\* C12: early execution on the 70% threshold or on BUNDLE_MIN_SIZE
\* high-priority members when no bundle is in flight, the bundle being
\* selected before addTransaction returns; otherwise one timer and no bundle
C12_EarlyExecution == [][C12_AdmissionStep]_vars /\ []C12_SelectedBeforeReturn

\* the third admission made BUNDLE_MIN_SIZE high-priority transfers pending in
\* a pool below the 70% threshold, and they were selected at once
C12_Witness ==
  /\ nextId = BUNDLE_MIN_SIZE
  /\ timerFires = 0
  /\ execCalls = 0
  /\ bundleCount = 1
  /\ Len(lastBundle.members) = BUNDLE_MIN_SIZE

\* C13 (as claimed, its state part): whenever transfers are pending and no
\* bundle is in flight, the bundle timer is armed or a call is still under way
\* that will start an execution; a state that breaks this has pending
\* transfers that nothing will select unless addTransaction is called again
C13_TimerOrExecution ==
  (pendingTransactions # <<>> /\ ~bundleInProgress) =>
    (bundleTimer # 0 \/ DOMAIN ops # {})


\* ------------------------------------------------------------------------
\* Properties of the throttling manager
\* ------------------------------------------------------------------------
\* the step is a call that ran isAllowed for the source
AllowedCallOf(ip) ==
  /\ calls' = calls + 1
  /\ lastCall'.ip = ip
  /\ lastCall'.op \in {"isAllowed", "request"}

\* C14: in a run of isAllowed calls of one source that starts with its window
\* empty, stays inside one window and never meets the global limit, calls
\* 1..MAX_REQUESTS_PER_IP return true and the next one returns false and
\* blocks the source until now + BLOCK_DURATION
C14_Step ==
  \A ip \in Sources :
    (AllowedCallOf(ip) /\ streak'[ip].kind = "bare") =>
      /\ streak'[ip].n <= MAX_REQUESTS_PER_IP => lastCall'.ret
      /\ streak'[ip].n = MAX_REQUESTS_PER_IP + 1 =>
           /\ ~lastCall'.ret
           /\ blockedIPs'[ip] = clock + blockDuration
           /\ clock < blockedIPs'[ip]

C14_RateLimitBoundary == [][C14_Step]_vars

\* the call after the quota was used up has just been refused
C14_Witness ==
  \E ip \in Sources :
    /\ streak[ip].kind = "bare"
    /\ streak[ip].n = MAX_REQUESTS_PER_IP + 1
    /\ lastCall = [op |-> "isAllowed", ip |-> ip, ret |-> FALSE]
    /\ blockedIPs[ip] # 0
    /\ Len(requests[ip]) = MAX_REQUESTS_PER_IP

\* C15 (as claimed): in a run of requests of one source, each made as
\* isAllowed followed by recordRequest, that starts with its window empty,
\* stays inside one window and never meets the global limit, requests
\* 1..MAX_REQUESTS_PER_IP are allowed and the next one is denied
C15_Step ==
  \A ip \in Sources :
    (calls' = calls + 1 /\ lastCall'.ip = ip /\ lastCall'.op = "request"
       /\ streak'[ip].kind = "request") =>
      /\ streak'[ip].n <= MAX_REQUESTS_PER_IP => lastCall'.ret
      /\ streak'[ip].n = MAX_REQUESTS_PER_IP + 1 => ~lastCall'.ret

C15_ProtocolQuota == [][C15_Step]_vars

\* the step is the first isAllowed call of the source made at or after the
\* expiry of its latest block, and the global limit is not reached
FirstCallAfterBlock(ip) ==
  /\ AllowedCallOf(ip)
  /\ lastBlock[ip] # 0
  /\ clock >= lastBlock[ip]
  /\ GlobalFree

\* the source was allowed and has no block entry left
Unblocked(ip) == lastCall'.ret /\ blockedIPs'[ip] = 0

\* C16 (as claimed): in every configuration the first isAllowed call made at
\* or after the expiry of a block returns true and clears the block entry
C16_AnyConfigStep ==
  \A ip \in Sources : FirstCallAfterBlock(ip) => Unblocked(ip)

C16_AnyConfiguration == [][C16_AnyConfigStep]_vars

\* no request of the source bears a timestamp later than the start of its
\* latest block
QuietSinceBlock(ip) ==
  \A i \in 1..Len(requests[ip]) :
    requests[ip][i] <= lastBlock[ip] - blockDuration

\* C16 (amended): when BLOCK_DURATION is at least WINDOW_MS and no request of
\* the source was recorded after it was blocked, the first isAllowed call made
\* at or after the expiry of the block returns true and clears the block entry
C16_Step ==
  \A ip \in Sources :
    (FirstCallAfterBlock(ip) /\ blockDuration >= windowMs
       /\ QuietSinceBlock(ip)) => Unblocked(ip)

C16_BlockExpiry == [][C16_Step]_vars

\* a source that was blocked has just been allowed again, exactly at the
\* expiry of its block
C16_Witness ==
  \E ip \in Sources :
    /\ lastCall = [op |-> "isAllowed", ip |-> ip, ret |-> TRUE]
    /\ blockDuration >= windowMs
    /\ clock = blockDuration
    /\ requests[ip] = <<clock>>
    /\ blockedIPs[ip] = 0
    /\ lastBlock[ip] = 0
    /\ streak[ip].kind = "bare" /\ streak[ip].n = 1
    /\ calls = MAX_REQUESTS_PER_IP + 2

\* C17: an isAllowed call made while the source is blocked returns false and
\* leaves the source's window, the global window and the block expiry as they
\* were
C17_Step ==
  \A ip \in Sources :
    (AllowedCallOf(ip) /\ blockedIPs[ip] # 0 /\ clock < blockedIPs[ip]) =>
      /\ ~lastCall'.ret
      /\ requests'[ip] = requests[ip]
      /\ globalRequests' = globalRequests
      /\ blockedIPs'[ip] = blockedIPs[ip]

C17_BlockedConsumesNothing == [][C17_Step]_vars

\* a blocked source has just been refused, some time into its block, with
\* timestamps of its own in both windows
C17_Witness ==
  \E ip \in Sources :
    /\ blockedIPs[ip] # 0
    /\ clock < blockedIPs[ip]
    /\ clock > blockedIPs[ip] - blockDuration
    /\ lastCall = [op |-> "isAllowed", ip |-> ip, ret |-> FALSE]
    /\ streak[ip] = NoStreak
    /\ Len(requests[ip]) >= MAX_REQUESTS_PER_IP
    /\ globalRequests # <<>>

\* the timestamps of the global window that are younger than one second
YoungGlobal == recent(globalRequests, clock, GlobalWindow)

\* C18, first part: an isAllowed call made when the global window holds
\* MAX_REQUESTS_PER_SECOND timestamps younger than one second returns false,
\* whatever the source, and does not block it
C18_Step ==
  \A ip \in Sources :
    (AllowedCallOf(ip) /\ Len(YoungGlobal) >= MAX_REQUESTS_PER_SECOND) =>
      /\ ~lastCall'.ret
      /\ blockedIPs'[ip] \in {0, blockedIPs[ip]}
      /\ requests' = requests

C18_GlobalDenies == [][C18_Step]_vars

\* C18 (as claimed), second part: the global window never holds more than
\* MAX_REQUESTS_PER_SECOND timestamps younger than one second
C18_GlobalCap == Len(YoungGlobal) <= MAX_REQUESTS_PER_SECOND

\* C18 (as claimed): both parts
C18_GlobalLimit == C18_GlobalDenies /\ []C18_GlobalCap


\* ------------------------------------------------------------------------
\* Properties of the cache manager
\* ------------------------------------------------------------------------
\* the step is a get of the key
GetOf(k) ==
  /\ calls' = calls + 1
  /\ lastCall'.op = "get"
  /\ lastCall'.key = k

\* C19: a get of a key made not later than the expiry its last set gave it,
\* with no delete or eviction in between, returns the value set; a get made
\* after that expiry returns null and leaves no entry for the key; no get
\* returns a value past its expiry
C19_Step ==
  \A k \in CacheKeys :
    GetOf(k) =>
      /\ (written[k].live /\ clock <= written[k].expiresAt) =>
           lastCall'.ret = written[k].value
      /\ (written[k].value # 0 /\ clock > written[k].expiresAt) =>
           lastCall'.ret = 0 /\ indexOf(cache', k) = 0
      /\ lastCall'.ret # 0 =>
           lastCall'.ret = written[k].value /\ clock <= written[k].expiresAt

C19_CacheTTL == [][C19_Step]_vars

\* a get made exactly at the expiry of an entry set with a ttl of its own has
\* just returned the value
C19_Witness ==
  \E k \in CacheKeys :
    /\ lastCall.op = "get" /\ lastCall.key = k
    /\ lastCall.ret # 0
    /\ lastCall.ret = written[k].value
    /\ clock = written[k].expiresAt
    /\ lastPruneTime < clock
    /\ indexOf(cache, k) # 0
    /\ cache[indexOf(cache, k)].lastAccessed = clock

\* C20 (as claimed): the cache never holds more than MAX_SIZE entries, also
\* right after a set that inserted a new key into a full cache
C20_Capacity == Len(cache) <= MAX_SIZE

\* ------------------------------------------------------------------------
\* Properties of the shards
\* ------------------------------------------------------------------------
\* the ids of the transfers held by shard i
ShardIds(i) ==
  {shards[i].transactions[j].id : j \in 1..Len(shards[i].transactions)}

\* C21 (as claimed): every pending transfer is a member of the shard whose
\* index is the hash of its partition key modulo SHARD_COUNT, also after
\* rebalance() has run
C21_CoLocation ==
  \A i \in 1..Len(pendingTransactions) :
    pendingTransactions[i].id \in ShardIds(getShardIndex(pendingTransactions[i]))

\* how many times transfer t is held by the shards sh
HeldIn(sh, t) ==
  Cardinality({sl \in UNION {{<<i, j>> : j \in 1..Len(sh[i].transactions)} :
                               i \in DOMAIN sh} :
                 sh[sl[1]].transactions[sl[2]].id = t})

RECURSIVE CountIn(_, _)
CountIn(sh, i) ==
  IF i < 0 THEN 0 ELSE Len(sh[i].transactions) + CountIn(sh, i - 1)

RECURSIVE LoadIn(_, _)
LoadIn(sh, i) == IF i < 0 THEN 0 ELSE sh[i].load + LoadIn(sh, i - 1)

\* C22: a rebalance() run leaves the multiset of transfers held by the shards
\* as it was: every transfer is held as many times after as before, at most
\* once, and the total count and the total load are unchanged
C22_Step ==
  rebalances' # rebalances =>
    /\ \A t \in TxIds :
         /\ HeldIn(shards', t) = HeldIn(shards, t)
         /\ HeldIn(shards', t) <= 1
    /\ CountIn(shards', SHARD_COUNT - 1) = CountIn(shards, SHARD_COUNT - 1)
    /\ LoadIn(shards', SHARD_COUNT - 1) = LoadIn(shards, SHARD_COUNT - 1)

C22_RebalanceConservation == [][C22_Step]_vars

\* rebalance has moved one of two transfers of the same sender: each shard
\* now holds one of them
C22_Witness ==
  /\ rebalances = 1
  /\ \A i \in DOMAIN shards :
       shards[i].load = 1 /\ Len(shards[i].transactions) = 1
  /\ shards[0].transactions[1].fromWallet = shards[1].transactions[1].fromWallet

\* ------------------------------------------------------------------------
\* Properties of the auto-scaling manager
\* ------------------------------------------------------------------------
\* C23: a checkScaling decision changes the worker count by +1, only with the
\* rolling average above SCALE_UP_THRESHOLD and the count below MAX_WORKERS,
\* by -1, only with the average below SCALE_DOWN_THRESHOLD and the count
\* above MIN_WORKERS, or not at all
C23_Step ==
  /\ currentWorkers' - currentWorkers \in {0 - 1, 0, 1}
  /\ currentWorkers' = currentWorkers + 1 =>
       /\ SumSeq(cpuHistory') > SCALE_UP_THRESHOLD * Len(cpuHistory')
       /\ currentWorkers < MAX_WORKERS
  /\ currentWorkers' = currentWorkers - 1 =>
       /\ SumSeq(cpuHistory') < SCALE_DOWN_THRESHOLD * Len(cpuHistory')
       /\ currentWorkers > MIN_WORKERS

\* the worker count is within [MIN_WORKERS, MAX_WORKERS]
C23_Bounds == currentWorkers \in MIN_WORKERS..MAX_WORKERS

C23_ScalingStepAndBounds == [][C23_Step]_vars /\ []C23_Bounds

\* the count went up to MAX_WORKERS and a further check with a high average
\* has left it there
C23_Witness ==
  /\ currentWorkers = MAX_WORKERS
  /\ Len(cpuHistory) > MAX_WORKERS - MIN_WORKERS
  /\ \A i \in 1..Len(cpuHistory) : cpuHistory[i] > SCALE_UP_THRESHOLD
  /\ scaleChecks = <<>>

\* C24 (as claimed): two changes of the worker count are never less than
\* COOLDOWN_PERIOD apart, however the checkScaling calls are timed
C24_Step ==
  (currentWorkers' # currentWorkers /\ lastAction # NoAction) =>
    clock - lastAction >= COOLDOWN_PERIOD

C24_Cooldown == [][C24_Step]_vars

\* ------------------------------------------------------------------------
\* Admission: addTransaction offered every kind of amount
\* ------------------------------------------------------------------------
\* negative, zero, small, at and above the cap of the amount factor
\* (1000 units = 1,000,000), at MAX_AMOUNT and above it
AdmissionAmounts == {0 - 1, 0, 1, 1000, MAX_AMOUNT, MAX_AMOUNT + 1}

AdmissionInit ==
  /\ GuardFields
  /\ EngineFields
  /\ ManagerFields
  /\ callLimit = MaxAddCalls
  /\ workers = 0

AdmissionNext ==
  \/ \E from \in Senders, amount \in AdmissionAmounts, allowed \in BOOLEAN :
       AddTransaction(from, amount, allowed)
  \/ AddTransaction(Malformed, 1, TRUE)
  \/ ExecuteBundle
  \/ TimerFire
  \/ \E c \in DOMAIN ops, ok \in BOOLEAN : SubmitMember(c, ok)
  \/ \E c \in DOMAIN ops : ExecFinish(c)
  \/ \E c \in DOMAIN ops : EngineRelease(c)

AdmissionSpec == AdmissionInit /\ [][AdmissionNext]_vars

\* C25: the optimizer's queue is in non-increasing priority order in every
\* state (so after every addTransaction and removeTransactions),
\* getOptimizedTransactions(n) is the first n of it, and of two queued transfers
\* with amounts a < b, a below 1,000,000, the one with amount b comes first
C25_Ordered ==
  \A i, j \in 1..Len(priorityQueue) :
    i < j => priorityQueue[i].priority >= priorityQueue[j].priority

C25_Prefix ==
  \A n \in 0..(Len(priorityQueue) + 1) :
    LET r == getOptimizedTransactions(Cur, n) IN
    /\ Len(r) = Min(n, Len(priorityQueue))
    /\ \A i \in 1..Len(r) : r[i] = priorityQueue[i]

C25_LargerFirst ==
  \A i, j \in 1..Len(priorityQueue) :
    (priorityQueue[i].amount < priorityQueue[j].amount
       /\ priorityQueue[i].amount < 1000) => j < i

C25_PriorityOrdering == C25_Ordered /\ C25_Prefix /\ C25_LargerFirst

\* two transfers are queued, the larger one was admitted later and is first
C25_Witness ==
  /\ Len(priorityQueue) = 2
  /\ priorityQueue[1].amount = 1000
  /\ priorityQueue[2].amount = 1
  /\ priorityQueue[1].id > priorityQueue[2].id

\* what an admission adds to
Pool == <<pendingTransactions, priorityQueue, transactionGroups, shards,
          bundleTimer>>

\* this step is an addTransaction call turned away by the throttle
RateLimitedNow ==
  /\ addCalls' = addCalls + 1
  /\ Cardinality(DOMAIN ops') = Cardinality(DOMAIN ops)

\* this step is an addTransaction call whose guarded function ran and threw
ThrownNow ==
  /\ addCalls' = addCalls + 1
  /\ Cardinality(DOMAIN ops') = Cardinality(DOMAIN ops) + 1
  /\ ops'[Cardinality(DOMAIN ops')].outcome = "err"

\* this step releases a lock and runs a queued addTransaction, which threw
QueuedThrownNow ==
  /\ addCalls' = addCalls
  /\ microtasks # <<>>
  /\ Cardinality(DOMAIN ops') = Cardinality(DOMAIN ops) - 1
  /\ Len(microtasks') = Len(microtasks)
  /\ LET e == microtasks'[Len(microtasks')] IN
       ops'[e].fn = "add" /\ ops'[e].wasQueued /\ ops'[e].outcome = "err"

\* this step is an addTransaction call with amount MAX_AMOUNT that ran
MaxAmountNow ==
  /\ addCalls' = addCalls + 1
  /\ Cardinality(DOMAIN ops') > Cardinality(DOMAIN ops)
  /\ LET c == Cardinality(DOMAIN ops) + 1 IN
       /\ ops'[c].amount = MAX_AMOUNT
       /\ ops'[c].from # Malformed
       /\ ops'[c].st # "queued"

\* C26: an addTransaction call that fails (rate-limited, amount <= 0,
\* amount > MAX_AMOUNT, malformed identity) leaves the pending pool, the
\* priority queue, the per-source groups, every shard and the bundle timer as
\* they were; a call with amount = MAX_AMOUNT is admitted
C26_Step ==
  /\ (RateLimitedNow \/ ThrownNow \/ QueuedThrownNow) => UNCHANGED Pool
  /\ MaxAmountNow =>
       /\ ops'[Cardinality(DOMAIN ops) + 1].outcome = "ok"
       /\ nextId' = nextId + 1
       /\ selected[nextId'] = 0
       /\ \/ \E i \in 1..Len(pendingTransactions') :
               /\ pendingTransactions'[i].id = nextId'
               /\ pendingTransactions'[i].amount = MAX_AMOUNT
          \/ selected'[nextId'] = 1

C26_RejectedAdmissions == [][C26_Step]_vars

\* a transfer was admitted with MAX_AMOUNT and its timer is armed; the next
\* call, with a larger amount, has just been turned away
C26_Witness ==
  /\ Len(pendingTransactions) = 1
  /\ pendingTransactions[1].amount = MAX_AMOUNT
  /\ priorityQueue = pendingTransactions
  /\ bundleTimer # 0
  /\ addCalls = 2
  /\ \E c \in DOMAIN ops :
       /\ ops[c].fn = "add"
       /\ ops[c].outcome = "err"
       /\ ops[c].amount > MAX_AMOUNT

\* the records of executedBundles that hold transfer t
RecordsOf(bag, t) == {r \in DOMAIN bag : r.tx = t}

RecordedOnce(bag, t) ==
  /\ Cardinality(RecordsOf(bag, t)) = 1
  /\ \A r \in RecordsOf(bag, t) : bag[r] = 1

\* transfer t is still to be submitted by a running synchronous execution
Awaiting(t) ==
  \E c \in DOMAIN ops :
    /\ ops[c].fn = "exec" /\ ops[c].st = "running"
    /\ \E i \in 1..Len(ops[c].todo) : ops[c].todo[i] = t

\* C27: when the submission of a member fails the other members of the bundle
\* are still submitted (no selected member is dropped), a member that succeeds
\* is recorded as executed exactly once, a member that fails is not recorded,
\* and executeBundleTransactions itself never fails
C27_Step ==
  \A t \in TxIds :
    dispatched'[t] # dispatched[t] =>
      \* a submission on the synchronous path that failed
      /\ failures' # failures =>
           /\ executedBundles' = executedBundles
           /\ \A u \in TxIds : Awaiting(u) /\ u # t => Awaiting(u)'
      \* a submission on the synchronous path that succeeded
      /\ (failures' = failures /\ workers = 0) =>
           /\ RecordsOf(executedBundles, t) = {}
           /\ \E b \in 1..bundleCount :
                executedBundles' =
                  executedBundles (+) SetToBag({[id |-> b, tx |-> t]})

C27_Inv ==
  /\ \A c \in DOMAIN ops : ops[c].fn = "exec" => ops[c].outcome # "err"
  /\ \A r \in DOMAIN executedBundles : RecordedOnce(executedBundles, r.tx)
  /\ workers = 0 =>
       \A t \in TxIds :
         /\ selected[t] > 0 => (Awaiting(t) \/ dispatched[t] = 1)
         /\ (dispatched[t] = 1 /\ RecordsOf(executedBundles, t) = {})
              => failures > 0

C27_MemberIndependence == [][C27_Step]_vars /\ []C27_Inv

\* a bundle of two: the first member failed, the second was submitted after
\* it and is the only one recorded, and the call has returned
C27_Witness ==
  /\ Len(lastBundle.members) = 2
  /\ failures = 1
  /\ RecordsOf(executedBundles, lastBundle.members[1]) = {}
  /\ RecordedOnce(executedBundles, lastBundle.members[2])
  /\ dispatched[lastBundle.members[1]] = 1
  /\ ~bundleInProgress
  /\ ops = << >>

\* C28 (as claimed): an executeBundleTransactions call that selected a bundle
\* returns that bundle's id with a count equal to the number of transfers it
\* selected, with and without a worker pool; a call on an empty pool returns
\* no bundle and changes nothing
C28_Returned ==
  \A c \in DOMAIN ops :
    (ops[c].fn = "exec" /\ ops[c].st = "settled" /\ ops[c].bundleId # 0
       /\ ops[c].bundleId = lastBundle.id)
      => ops[c].count = Len(lastBundle.members)

C28_EmptyStep ==
  (execCalls' = execCalls + 1 /\ pendingTransactions = <<>>
     /\ ~locks["execute_bundle"]) =>
    /\ UNCHANGED <<Pool, bundleInProgress, executedBundles, bundleCount,
                   lastBundle, workerJobs, selected, dispatched>>
    /\ ops'[Cardinality(DOMAIN ops')].bundleId = 0
    /\ ops'[Cardinality(DOMAIN ops')].outcome = "ok"

C28_ExecuteBundleResult == [][C28_EmptyStep]_vars /\ []C28_Returned

\* ------------------------------------------------------------------------
\* getStats
\* ------------------------------------------------------------------------
MaxStatsCalls == 2

\* (a total that counts bundles instead of their members)
getStats_bundles(s) ==
  [pendingTransactions |-> Len(s.pendingTransactions),
   executedBundles |-> BagCardinality(s.executedBundles),
   totalTransactionsExecuted |->
     Cardinality({r.id : r \in BagToSet(s.executedBundles)}),
   bundleInProgress |-> s.bundleInProgress,
   workerCount |-> s.workers]

\* ScalableBundleEngine.getStats(): every record of executedBundles holds one
\* transaction, so the reduce adds 1 per record
getStats(s) ==
  [pendingTransactions |-> Len(s.pendingTransactions),
   executedBundles |-> BagCardinality(s.executedBundles),
   totalTransactionsExecuted |-> BagCardinality(s.executedBundles),
   bundleInProgress |-> s.bundleInProgress,
   workerCount |-> s.workers]

\* a caller calls getStats() and keeps what it returned
GetStats ==
  /\ calls < MaxStatsCalls
  /\ calls' = calls + 1
  /\ lastCall' = [op |-> "getStats", ip |-> 0, ret |-> getStats(Cur)]
  /\ UNCHANGED <<engineVars, clock, throttleVars, cacheVars, scalingVars>>

StatsInit ==
  /\ GuardFields
  /\ EngineFields
  /\ ManagerFields
  /\ callLimit = MaxAddCalls
  /\ workers \in {0, MaxWorkers}

StatsNext ==
  \/ \E from \in Senders : AddTransaction(from, 1, TRUE)
  \/ ExecuteBundle
  \/ TimerFire
  \/ \E c \in DOMAIN ops, ok \in BOOLEAN : SubmitMember(c, ok)
  \/ \E c \in DOMAIN ops : ExecFinish(c)
  \/ \E c \in DOMAIN ops : EngineRelease(c)
  \/ \E job \in workerJobs : WorkerStep(job)
  \/ GetStats

StatsSpec == StatsInit /\ [][StatsNext]_vars

\* the submissions made so far
RECURSIVE Submitted(_)
Submitted(n) == IF n = 0 THEN 0 ELSE dispatched[n] + Submitted(n - 1)

\* the transfers posted to workers whose result has not come back
RECURSIVE Outstanding(_)
Outstanding(jobs) ==
  IF jobs = {} THEN 0
  ELSE LET job == CHOOSE j \in jobs : TRUE
       IN Len(job.transactions) + Outstanding(jobs \ {job})

\* the members submitted with success so far
Succeeded == Submitted(nextId) - failures - Outstanding(workerJobs)

\* C29: a getStats call changes nothing in the engine, the cache, the
\* throttle, the shards or the auto-scaling manager, and the pending count,
\* the in-flight flag and the total of executed transfers it returns are the
\* pending pool's size, bundleInProgress and the number of members submitted
\* with success
C29_Step ==
  calls' # calls =>
    /\ UNCHANGED <<engineVars, clock, throttleVars, cacheVars, scalingVars>>
    /\ lastCall'.ret.pendingTransactions = Len(pendingTransactions)
    /\ lastCall'.ret.bundleInProgress = bundleInProgress
    /\ lastCall'.ret.totalTransactionsExecuted = Succeeded

C29_GetStatsPureRead == [][C29_Step]_vars

\* getStats was just called while a bundle was executing: one member had been
\* submitted with success and one transfer was pending
C29_Witness ==
  /\ lastCall.op = "getStats"
  /\ lastCall.ret.pendingTransactions = 1
  /\ lastCall.ret.bundleInProgress
  /\ lastCall.ret.totalTransactionsExecuted = 1
  /\ lastCall.ret = getStats(Cur)

\* ------------------------------------------------------------------------
\* close
\* ------------------------------------------------------------------------
MaxCloseCalls == 2

\* ScalableBundleEngine.close(): the timer is cleared; worker.terminate()
\* leaves this.workers as long as it was
close(s) == [s EXCEPT !.bundleTimer = 0]

\* a caller calls close(); callers may call in any tick, also between a
\* handler and its continuation. The number of addTransaction calls made
\* before it is kept with the call
Close ==
  /\ calls < MaxCloseCalls
  /\ calls' = calls + 1
  /\ lastCall' = [op |-> "close", ip |-> 0, ret |-> addCalls]
  /\ bundleTimer' = close(Cur).bundleTimer
  /\ UNCHANGED <<locks, pendingOperations, ops, counter, startLog, microtasks,
                 pendingTransactions, priorityQueue, transactionGroups, shards,
                 bundleInProgress, executedBundles, workers, workerJobs,
                 nextId, bundleCount, lastBundle, selected, dispatched,
                 rebalances, timerFires, addCalls, execCalls, failures,
                 callLimit>>
  /\ UNCHANGED <<clock, throttleVars, cacheVars, scalingVars>>

CloseInit ==
  /\ GuardFields
  /\ EngineFields
  /\ ManagerFields
  /\ callLimit = MaxAddCalls
  /\ workers \in {0, MaxWorkers}

CloseNext ==
  \/ \E from \in Senders : AddTransaction(from, 1, TRUE)
  \/ ExecuteBundle
  \/ TimerFire
  \/ \E c \in DOMAIN ops, ok \in BOOLEAN : SubmitMember(c, ok)
  \/ \E c \in DOMAIN ops : ExecFinish(c)
  \/ \E c \in DOMAIN ops : EngineRelease(c)
  \/ \E job \in workerJobs : WorkerStep(job)
  \/ Close

CloseSpec == CloseInit /\ [][CloseNext]_vars

\* close() was called and addTransaction has not been called since
ClosedSince == lastCall.op = "close" /\ lastCall.ret = addCalls

\* C30 (as claimed): after close() no bundle timer is armed, and none fires,
\* until addTransaction is called again; a close() in the state a close() left
\* changes nothing; close() never changes the pending pool
C30_NoTimer == ClosedSince => bundleTimer = 0

C30_Step ==
  /\ calls' # calls =>
       /\ bundleTimer' = 0
       /\ UNCHANGED <<pendingTransactions, priorityQueue, transactionGroups,
                      shards>>
       /\ bundleTimer = 0 => UNCHANGED engineVars
  /\ timerFires' # timerFires => ~ClosedSince

C30_Close == [][C30_Step]_vars /\ []C30_NoTimer

\* ------------------------------------------------------------------------
\* SafeMath
\* ------------------------------------------------------------------------
\* a JavaScript number is a binary float with a 53-bit significand; the model
\* keeps the arithmetic and scales the significand to SafeBits bits
SafeBits == 4

Pow2(n) == 2 ^ n

\* Number.MAX_SAFE_INTEGER = 2^53 - 1
MAX_SAFE_INTEGER == Pow2(SafeBits) - 1

\* a + b for integers 0 <= a, b <= MAX_SAFE_INTEGER: exact up to 2^SafeBits;
\* above it only even integers are representable and an odd sum rounds to
\* the neighbour whose significand is even
floatAdd(a, b) ==
  LET r == a + b IN
  IF r <= Pow2(SafeBits) \/ r % 2 = 0 THEN r
  ELSE IF (r + 1) % 4 = 0 THEN r + 1 ELSE r - 1

\* SafeMath.add
add(a, b) ==
  LET result == floatAdd(a, b) IN
  IF result < a \/ result < b THEN MAX_SAFE_INTEGER ELSE result

SafeInputs == 0..MAX_SAFE_INTEGER

\* a caller holds two numbers
SafeMathInit ==
  /\ GuardFields
  /\ EngineFields
  /\ workers = 0
  /\ callLimit = 0
  /\ clock = 0
  /\ calls = 0
  /\ ThrottleFields
  /\ CacheFields
  /\ AutoScalingFields
  /\ windowMs = DefaultWindow
  /\ blockDuration = DefaultBlock
  /\ lastCall \in {[op |-> "input", ip |-> <<a, b>>, ret |-> 0] :
                     a \in SafeInputs, b \in SafeInputs}

\* the caller calls SafeMath.add(a, b) and keeps the result
SafeAdd ==
  /\ lastCall.op = "input"
  /\ calls' = calls + 1
  /\ lastCall' = [lastCall EXCEPT !.op = "add",
                                  !.ret = add(lastCall.ip[1], lastCall.ip[2])]
  /\ UNCHANGED <<engineVars, clock, throttleVars, cacheVars, scalingVars>>

SafeMathNext == SafeAdd

SafeMathSpec == SafeMathInit /\ [][SafeMathNext]_vars

\* C31 (as claimed): for non-negative integers a, b up to MAX_SAFE, add(a, b)
\* is min(a + b, MAX_SAFE); add(MAX_SAFE, 1) = MAX_SAFE; the result never
\* exceeds MAX_SAFE
C31_SaturatingAdd ==
  lastCall.op = "add" =>
    /\ lastCall.ret = Min(lastCall.ip[1] + lastCall.ip[2], MAX_SAFE_INTEGER)
    /\ lastCall.ret <= MAX_SAFE_INTEGER

\* the bundles whose execution has completed: selected, with no member left
\* to submit and no worker message outstanding
CompletedBundles ==
  {b \in 1..bundleCount :
     /\ \A c \in DOMAIN ops :
          ~(ops[c].fn = "exec" /\ ops[c].st = "running" /\ ops[c].bundleId = b)
     /\ \A job \in workerJobs : job.bundleId # b}

\* C32 (as claimed): every completed bundle has exactly one record in
\* executedBundles, carrying its id, and the executedBundles count that
\* getStats returns is the number of bundles executed
C32_Records ==
  \A b \in CompletedBundles :
    /\ Cardinality({r \in DOMAIN executedBundles : r.id = b}) = 1
    /\ \A r \in DOMAIN executedBundles : r.id = b => executedBundles[r] = 1

C32_Step ==
  (calls' # calls /\ lastCall'.op = "getStats") =>
    lastCall'.ret.executedBundles = Cardinality(CompletedBundles)

C32_OneRecordPerBundle == [][C32_Step]_vars /\ []C32_Records

\* C33 (as claimed): bundleInProgress is true from the removal of a bundle's
\* members from the pool until the outcome of each of them is recorded, with
\* and without a worker pool: while the flag is false no member of any bundle
\* is awaiting its outcome
C33_InFlightFlag == ~bundleInProgress => Executing = {}

\* ------------------------------------------------------------------------
\* ShardManager on its own
\* ------------------------------------------------------------------------
MaxShardCalls == 4

\* SHARD_COUNT is half the number of CPUs: tables of two and of three shards
ShardCounts == {2, 3}

ShardSenders == {1, 2, 3}

\* what the manager's methods leave alone
shardFrame == <<locks, pendingOperations, ops, counter, startLog, microtasks,
                pendingTransactions, priorityQueue, transactionGroups,
                bundleTimer, bundleInProgress, executedBundles, workers,
                workerJobs, bundleCount, lastBundle, selected, dispatched,
                timerFires, addCalls, execCalls, failures, callLimit,
                clock, throttleVars, cacheVars, scalingVars>>

\* a caller calls assignToShard with a new transfer of sender from
AssignToShard(from) ==
  /\ calls < MaxShardCalls
  /\ LET tx == [id |-> nextId + 1, fromWallet |-> from] IN
       /\ shards' = assignToTable(shards, tx)
       /\ lastCall' = [op |-> "assignToShard", ip |-> from,
                       ret |-> HashNum(from) % shardCountOf(shards)]
  /\ nextId' = nextId + 1
  /\ calls' = calls + 1
  /\ UNCHANGED <<rebalances, shardFrame>>

\* a caller calls removeTransactionsFromShard(shardIndex, transactionIds)
RemoveTransactionsFromShard(shardIndex, transactionIds) ==
  /\ calls < MaxShardCalls
  /\ \E r \in {removeTransactionsFromShard(shards, shardIndex, transactionIds)} :
       /\ shards' = r.shards
       /\ lastCall' = [op |-> "removeTransactionsFromShard",
                       ip |-> shardIndex, ret |-> r.ret]
  /\ calls' = calls + 1
  /\ UNCHANGED <<nextId, rebalances, shardFrame>>

\* the rebalance timer fires after REBALANCE_INTERVAL
RebalanceShards ==
  /\ calls < MaxShardCalls
  /\ rebalances < MaxRebalances
  /\ shards' = rebalanceTable(shards)
  /\ lastCall' = [op |-> "rebalance", ip |-> 0, ret |-> 0]
  /\ rebalances' = rebalances + 1
  /\ calls' = calls + 1
  /\ UNCHANGED <<nextId, shardFrame>>

ShardInit ==
  /\ GuardFields
  /\ pendingTransactions = <<>>
  /\ priorityQueue = <<>>
  /\ transactionGroups = [f \in {} |-> <<>>]
  /\ \E n \in ShardCounts :
       shards = [i \in 0..(n - 1) |-> [transactions |-> <<>>, load |-> 0]]
  /\ bundleTimer = 0
  /\ bundleInProgress = FALSE
  /\ executedBundles = EmptyBag
  /\ workerJobs = {}
  /\ nextId = 0
  /\ bundleCount = 0
  /\ lastBundle = [id |-> 0, members |-> <<>>]
  /\ selected = [t \in TxIds |-> 0]
  /\ dispatched = [t \in TxIds |-> 0]
  /\ rebalances = 0
  /\ timerFires = 0
  /\ addCalls = 0
  /\ execCalls = 0
  /\ failures = 0
  /\ workers = 0
  /\ callLimit = 0
  /\ ManagerFields

ShardNext ==
  \/ \E from \in ShardSenders : AssignToShard(from)
  \/ \E shardIndex \in (0 - 1)..3, t \in 1..MaxShardCalls :
       RemoveTransactionsFromShard(shardIndex, {t})
  \/ RebalanceShards

ShardSpec == ShardInit /\ [][ShardNext]_vars

\* shard i is more than 20% above the mean load, more than 20% below it
Overloaded(sh, i) ==
  sh[i].load * shardCountOf(sh) * 10 > LoadIn(sh, shardCountOf(sh) - 1) * 12

Underloaded(sh, i) ==
  sh[i].load * shardCountOf(sh) * 10 < LoadIn(sh, shardCountOf(sh) - 1) * 8

\* C34 (as claimed): when a rebalance() run completes no pair of shards is
\* left with one more than 20% above the mean load and the other more than
\* 20% below it, unless nothing could be moved between them (half the
\* difference of their loads rounds down to nothing, or the overloaded shard
\* holds no transfer)
C34_Step ==
  (calls' # calls /\ lastCall'.op = "rebalance") =>
    \A i, j \in DOMAIN shards' :
      (Overloaded(shards', i) /\ Underloaded(shards', j)) =>
        \/ (shards'[i].load - shards'[j].load) \div 2 <= 0
        \/ shards'[i].transactions = <<>>

C34_RebalanceConvergence == [][C34_Step]_vars


\* ------------------------------------------------------------------------
\* Eviction preference of the cache
\* ------------------------------------------------------------------------
\* the positions of the entries of `before` whose key `after` no longer holds
RemovedBy(before, after) ==
  {i \in 1..Len(before) : indexOf(after, before[i].key) = 0}

Unexpired(entries, now) ==
  {i \in 1..Len(entries) : ~(now > entries[i].expiresAt)}

\* no unexpired entry goes while at most MAX_SIZE entries are unexpired, and
\* when one goes every entry removed was accessed no later than every entry
\* kept
PrefersOldest(before, after, now) ==
  LET removed == RemovedBy(before, after)
      unexpired == Unexpired(before, now)
  IN removed \cap unexpired # {} =>
       /\ Cardinality(unexpired) > MAX_SIZE
       /\ \A i \in removed : \A j \in (1..Len(before)) \ removed :
            before[i].lastAccessed <= before[j].lastAccessed

C35_Step ==
  /\ (calls' = calls /\ clock' = clock) => PrefersOldest(cache, cache', clock)
  /\ (calls' # calls /\ lastCall'.op = "set") =>
       PrefersOldest(cache, cache', clock)
  /\ (Prune(FALSE) /\ clock - lastPruneTime < PRUNE_INTERVAL) =>
       UNCHANGED <<cache, lastPruneTime>>

\* C35: a prune (the timer's, a caller's, or the forced one inside set) never
\* removes an unexpired entry while at most MAX_SIZE entries are unexpired;
\* when it removes unexpired entries, every entry it removes was last accessed
\* no later than every entry it keeps; and a non-forced prune within
\* PRUNE_INTERVAL of the previous prune changes nothing
C35_EvictionPreference == [][C35_Step]_vars

\* the set of a fourth key into a cache of three unexpired entries left
\* MAX_SIZE + 1 of them, time has passed, and a prune has then evicted the
\* entry of the first key, which is not yet expired, while the newer ones stay
C35_Witness ==
  /\ calls = MAX_SIZE + 1
  /\ lastCall.op = "set"
  /\ Len(cache) = MAX_SIZE
  /\ indexOf(cache, 1) = 0
  /\ written[1].value # 0
  /\ ~(clock > written[1].expiresAt)
  /\ \A i \in 1..Len(cache) : cache[i].lastAccessed > 0
  /\ lastPruneTime = clock


\* ------------------------------------------------------------------------
\* The bundle timer
\* ------------------------------------------------------------------------
\* max(0.2 * BUNDLE_TIMEOUT, BUNDLE_TIMEOUT * (1 - 0.8 * n / BUNDLE_SIZE))
ClaimedTimeout(n) ==
  LET fifth == BUNDLE_TIMEOUT \div 5
      scaled == BUNDLE_TIMEOUT - (8 * BUNDLE_TIMEOUT * n) \div (10 * BUNDLE_SIZE)
  IN IF scaled > fifth THEN scaled ELSE fifth

\* calculateDynamicTimeout of an engine holding n pending transfers
TimeoutFor(n) ==
  calculateDynamicTimeout([pendingTransactions |-> [i \in 1..n |-> i]])

\* a step arms the timer: the handle was null or cleared before or within the
\* step, and holds a timer after it
C36_Step ==
  bundleTimer' # bundleTimer /\ bundleTimer' # 0 =>
    /\ bundleTimer = 0
    /\ bundleTimer' = ClaimedTimeout(Len(pendingTransactions'))

\* the armed timeout is in range; and with the pending count of this state,
\* the timeout is the claimed one, in range, and not below the timeout for one
\* more pending transfer
C36_Range ==
  LET n == Len(pendingTransactions)
  IN /\ bundleTimer # 0 =>
          /\ 5 * bundleTimer >= BUNDLE_TIMEOUT
          /\ bundleTimer <= BUNDLE_TIMEOUT
     /\ TimeoutFor(n) = ClaimedTimeout(n)
     /\ 5 * TimeoutFor(n) >= BUNDLE_TIMEOUT
     /\ TimeoutFor(n) <= BUNDLE_TIMEOUT
     /\ TimeoutFor(n + 1) <= TimeoutFor(n)

\* C36: the timeout armed by addTransaction is
\* max(0.2 * BUNDLE_TIMEOUT, BUNDLE_TIMEOUT * (1 - 0.8 * pending / BUNDLE_SIZE))
\* for the pending count at arming time; it lies in
\* [0.2 * BUNDLE_TIMEOUT, BUNDLE_TIMEOUT] and never increases with the pending
\* count; and a timer is armed only while no other timer is armed
C36_DynamicTimeout == [][C36_Step]_vars /\ []C36_Range

\* an addTransaction that found no timer armed has armed one for five pending
\* transfers, below the full BUNDLE_TIMEOUT
C36_Witness ==
  /\ Len(pendingTransactions) = 5
  /\ bundleTimer = ClaimedTimeout(5)
  /\ bundleTimer < ClaimedTimeout(4)


\* ------------------------------------------------------------------------
\* Age and priority
\* ------------------------------------------------------------------------
\* one tick of the clock stands for a little more than ten seconds
TickMs == 10000 + 1

AgeMs(tx) == (clock - tx.timestamp) * TickMs

PriorityAmounts == {1, 1000}

PriorityInit ==
  /\ GuardFields
  /\ EngineFields
  /\ ManagerFields
  /\ callLimit = MaxAddCalls
  /\ workers = 0

\* admissions and executions of the engine while time passes
PriorityNext ==
  \/ \E from \in Senders, amount \in PriorityAmounts :
       AddTransaction(from, amount, TRUE)
  \/ ExecuteBundle
  \/ TimerFire
  \/ \E c \in DOMAIN ops, ok \in BOOLEAN : SubmitMember(c, ok)
  \/ \E c \in DOMAIN ops : ExecFinish(c)
  \/ \E c \in DOMAIN ops : EngineRelease(c)
  \/ Tick

PrioritySpec == PriorityInit /\ [][PriorityNext]_vars

\* C37 (as claimed): when a bundle can be selected, of two pending transfers
\* with the same amount, one pending for more than 10 seconds has a strictly
\* lower priority than one just admitted, and the younger one comes first in
\* getOptimizedTransactions
C37_AgeLowersPriority ==
  ~bundleInProgress =>
    LET optimized == getOptimizedTransactions(Cur, BUNDLE_SIZE)
    IN \A i, j \in 1..Len(optimized) :
         ( /\ optimized[i].amount = optimized[j].amount
           /\ AgeMs(optimized[i]) > 10000
           /\ AgeMs(optimized[j]) = 0 ) =>
           /\ optimized[i].priority < optimized[j].priority
           /\ j < i


\* ------------------------------------------------------------------------
\* The three indexes of the pending transfers
\* ------------------------------------------------------------------------
IdSet(seq) == {seq[i].id : i \in 1..Len(seq)}

GroupSlots ==
  UNION {{<<f, i>> : i \in 1..Len(transactionGroups[f])} :
           f \in DOMAIN transactionGroups}

GroupIds == {transactionGroups[sl[1]][sl[2]].id : sl \in GroupSlots}

\* C38: in every reachable state the pending pool, the optimizer's priority
\* queue and the union of the per-source groups hold the same transfer ids,
\* each id exactly once in each, and no per-source group is empty
C38_IndexConsistency ==
  /\ IdSet(pendingTransactions) = IdSet(priorityQueue)
  /\ IdSet(pendingTransactions) = GroupIds
  /\ Cardinality(IdSet(pendingTransactions)) = Len(pendingTransactions)
  /\ Cardinality(IdSet(priorityQueue)) = Len(priorityQueue)
  /\ Cardinality(GroupIds) = Cardinality(GroupSlots)
  /\ \A f \in DOMAIN transactionGroups : Len(transactionGroups[f]) # 0

\* a bundle has been selected, which emptied every group there was, and a
\* transfer admitted since is pending in all three indexes
C38_Witness ==
  /\ bundleCount >= 1
  /\ Len(lastBundle.members) >= 1
  /\ Len(pendingTransactions) = 1
  /\ pendingTransactions = priorityQueue
  /\ \E f \in Senders :
       /\ DOMAIN transactionGroups = {f}
       /\ transactionGroups[f] = pendingTransactions
  /\ \A i \in 1..Len(lastBundle.members) :
       lastBundle.members[i] # pendingTransactions[1].id


\* a call of removeTransactionsFromShard with an index outside the table
\* throws and leaves every shard as it was; with an index inside it returns
\* the number of transfers removed
C39_Step ==
  (calls' # calls /\ lastCall'.op = "removeTransactionsFromShard") =>
    IF lastCall'.ip < 0 \/ lastCall'.ip >= shardCountOf(shards)
      THEN lastCall'.ret = InvalidShardIndex /\ shards' = shards
      ELSE lastCall'.ret >= 0

C39_Load ==
  \A i \in DOMAIN shards :
    /\ shards[i].load = Len(shards[i].transactions)
    /\ shards[i].load >= 0

\* C39: after any sequence of assignToShard, removeTransactionsFromShard and
\* rebalance, the load counter of every shard equals the number of transfers
\* the shard holds and is not negative, and removeTransactionsFromShard with an
\* out-of-range index fails and changes no shard
C39_ShardLoadCounter == [][C39_Step]_vars /\ []C39_Load

\* two transfers were assigned, a rebalance has moved one to a shard other
\* than the one its sender hashes to, and the last call, a
\* removeTransactionsFromShard with an out-of-range index, has failed
C39_Witness ==
  /\ lastCall.op = "removeTransactionsFromShard"
  /\ lastCall.ret = InvalidShardIndex
  /\ rebalances = 1
  /\ nextId = 2
  /\ LoadIn(shards, shardCountOf(shards) - 1) = 2
  /\ \E i \in DOMAIN shards : \E j \in 1..Len(shards[i].transactions) :
       HashNum(shards[i].transactions[j].fromWallet) % shardCountOf(shards) # i


\* ------------------------------------------------------------------------
\* Admission while a bundle executes
\* ------------------------------------------------------------------------
\* transfer t belongs to bundle b: it is still to be submitted by b's
\* execution, is with a worker for b, or is recorded as executed in b
MemberOf(t, b, o, jobs, executed) ==
  \/ \E c \in DOMAIN o :
       /\ o[c].fn = "exec" /\ o[c].bundleId = b
       /\ \E i \in 1..Len(o[c].todo) : o[c].todo[i] = t
  \/ \E job \in jobs :
       /\ job.bundleId = b
       /\ \E i \in 1..Len(job.transactions) : job.transactions[i] = t
  \/ [id |-> b, tx |-> t] \in DOMAIN executed

SelectedNow(t) ==
  /\ bundleCount' = bundleCount + 1
  /\ lastBundle'.id = bundleCount'
  /\ \E i \in 1..Len(lastBundle'.members) : lastBundle'.members[i] = t
  /\ selected'[t] = selected[t] + 1

\* a step that admits a transfer while a bundle is executing, and any step that
\* takes a transfer out of the pool
C40_Step ==
  /\ (nextId' = nextId + 1 /\ Executing # {}) =>
       /\ \A b \in Executing :
            ~MemberOf(nextId', b, ops', workerJobs', executedBundles')
       /\ nextId' \in IdSet(pendingTransactions') \/ SelectedNow(nextId')
       /\ bundleInProgress =>
            /\ bundleCount' = bundleCount
            /\ nextId' \in IdSet(pendingTransactions')
  /\ \A t \in IdSet(pendingTransactions) :
       t \notin IdSet(pendingTransactions') => SelectedNow(t)

\* an admitted transfer is pending exactly as long as no bundle has selected it
C40_Kept ==
  \A t \in 1..nextId : (t \in IdSet(pendingTransactions)) <=> (selected[t] = 0)

\* C40: a transfer admitted while a bundle execution is in flight is not a
\* member of that bundle, is not lost and stays pending until a later bundle
\* selects it, and its admission starts no execution while bundleInProgress is
\* set
C40_AdmissionDuringExecution == [][C40_Step]_vars /\ []C40_Kept

\* with bundleInProgress set and the selected bundle still executing, the
\* transfer admitted last is the only one pending, is in no bundle, and its
\* admission has armed the timer that the execution had cleared
C40_Witness ==
  /\ bundleInProgress
  /\ Executing = {bundleCount}
  /\ Len(lastBundle.members) >= 1
  /\ Len(pendingTransactions) = 1
  /\ pendingTransactions[1].id = nextId
  /\ selected[nextId] = 0
  /\ ~MemberOf(nextId, bundleCount, ops, workerJobs, executedBundles)
  /\ bundleTimer # 0

====
